---- MODULE Spec2Model ----
(***************************************************************************)
(* boni: event accumulator, single-flight update scheduler and quota       *)
(* backoff governor (src/boni/accumulator.py, src/boni/app.py,             *)
(* src/boni/brain.py).                                                     *)
(*                                                                         *)
(* Time is time.time() in whole seconds.  Scores are kept in hundredths    *)
(* (5.0 is 500) so that round(score, 1) is a real rounding.  An error text *)
(* is a sequence of characters; the multi-character literals the code      *)
(* searches for are single symbols: "R" is RESOURCE_EXHAUSTED, "D" is      *)
(* retryDelay, "P" is "Please retry in".                                   *)
(***************************************************************************)
EXTENDS Integers, Sequences, FiniteSets, TLC

\* ---------------------------------------------------------------- bounds
MaxTime == 5
MaxTriggers == 2
MaxPets == 1
MaxBrains == 2
MaxBuf == 5
MaxAccTime == 125

\* ------------------------------------------------------- brain.py: texts
Digits == {"0", "1", "2", "3", "4", "5", "6", "7", "8", "9"}

DigitVal(c) ==
  CASE c = "0" -> 0 [] c = "1" -> 1 [] c = "2" -> 2 [] c = "3" -> 3
    [] c = "4" -> 4 [] c = "5" -> 5 [] c = "6" -> 6 [] c = "7" -> 7
    [] c = "8" -> 8 [] c = "9" -> 9

Quotes == {"'", "\""}

At(text, i) == IF i >= 1 /\ i <= Len(text) THEN text[i] ELSE "$"

\* first position >= i holding a character outside cls
RECURSIVE SkipWhile(_, _, _)
SkipWhile(text, i, cls) ==
  IF At(text, i) \in cls THEN SkipWhile(text, i + 1, cls) ELSE i

SkipOpt(text, i, cls) == IF At(text, i) \in cls THEN i + 1 ELSE i

\* int() of the digit run text[i..j-1]
RECURSIVE IntOf(_, _, _)
IntOf(text, i, j) ==
  IF j <= i THEN 0 ELSE IntOf(text, i, j - 1) * 10 + DigitVal(text[j - 1])

\* (\d+)(?:\.\d+)?s  anchored at i: the captured integer, or -1
NumberS(text, i) ==
  LET j == SkipWhile(text, i, Digits) IN
  IF j = i THEN -1
  ELSE IF At(text, j) = "s" THEN IntOf(text, i, j)
  ELSE IF At(text, j) = "."
       THEN LET k == SkipWhile(text, j + 1, Digits) IN
            IF k > j + 1 /\ At(text, k) = "s" THEN IntOf(text, i, j) ELSE -1
  ELSE -1

\* retryDelay['"]?\s*:\s*['"]?(\d+)(?:\.\d+)?s  anchored at i
MatchRetryDelay(text, i) ==
  IF At(text, i) # "D" THEN -1
  ELSE LET a == SkipOpt(text, i + 1, Quotes)
           b == SkipWhile(text, a, {" "})
       IN IF At(text, b) # ":" THEN -1
          ELSE LET c == SkipWhile(text, b + 1, {" "})
                   d == SkipOpt(text, c, Quotes)
               IN NumberS(text, d)

\* Please retry in\s+(\d+)(?:\.\d+)?s  anchored at i
MatchPleaseRetry(text, i) ==
  IF At(text, i) # "P" THEN -1
  ELSE LET a == SkipWhile(text, i + 1, {" "}) IN
       IF a = i + 1 THEN -1 ELSE NumberS(text, a)

\* re.search: the leftmost position where the pattern matches
RECURSIVE SearchFrom(_, _, _)
SearchFrom(text, i, first) ==
  IF i > Len(text) THEN -1
  ELSE LET m == IF first THEN MatchRetryDelay(text, i)
                ELSE MatchPleaseRetry(text, i)
       IN IF m >= 0 THEN m ELSE SearchFrom(text, i + 1, first)

Max(a, b) == IF a >= b THEN a ELSE b

DefaultRetryDelay == 60
MinRetryDelay == 5

ExtractRetryDelaySeconds(text) ==
  LET m1 == SearchFrom(text, 1, TRUE) IN
  IF m1 >= 0 THEN Max(MinRetryDelay, m1)
  ELSE LET m2 == SearchFrom(text, 1, FALSE) IN
       IF m2 >= 0 THEN Max(MinRetryDelay, m2) ELSE DefaultRetryDelay

\* "RESOURCE_EXHAUSTED" in text or "429" in text
IsRateLimitText(text) ==
  \/ \E i \in 1..Len(text) : text[i] = "R"
  \/ \E i \in 1..Len(text) :
       At(text, i) = "4" /\ At(text, i + 1) = "2" /\ At(text, i + 2) = "9"

\* ------------------------------------------------------ accumulator.py
\* SIGNIFICANCE, in hundredths; .get(reason, 0.5)
Significance(reason) ==
  CASE reason = "active_window_changed" -> 500
    [] reason = "active_window_title_changed" -> 50
    [] reason = "window_dwell_timeout" -> 300
    [] reason = "system_idle_threshold" -> 200
    [] reason = "frustration_pattern" -> 400
    [] reason = "sigh_detected" -> 300
    [] reason = "rapid_app_switching" -> 300
    [] reason = "high_typing_burst" -> 100
    [] OTHER -> 50

TRIGGER_THRESHOLD == 500
MIN_INTERVAL_SECONDS == 0
MAX_INTERVAL_SECONDS == 120
RapidWindowSeconds == 30
RapidSwitchCount == 3
SwitchesMaxlen == 10

\* EventAccumulator.__init__ at time t
NewAccumulator(t) ==
  [events |-> <<>>, score |-> 0, started_at |-> t, last_trigger_at |-> t,
   recent_app_switches |-> <<>>]

\* deque(maxlen=n).append(x)
DequeAppend(q, x, n) == IF Len(q) >= n THEN Append(Tail(q), x) ELSE Append(q, x)

\* while q and t - q[0] > 30: q.popleft()
RECURSIVE DropOld(_, _)
DropOld(q, t) ==
  IF q # <<>> /\ t - Head(q) > RapidWindowSeconds THEN DropOld(Tail(q), t) ELSE q

\* the same, without the score increment for the synthesized event
DetectRapidSwitchingNoScore(acc, t) ==
  LET q == DropOld(acc.recent_app_switches, t) IN
  IF Len(q) >= RapidSwitchCount
  THEN [acc EXCEPT !.events = Append(@, "rapid_app_switching"),
                   !.recent_app_switches = <<>>]
  ELSE [acc EXCEPT !.recent_app_switches = q]

\* the same, without clearing the sliding window after the synthesized event
DetectRapidSwitchingNoClear(acc, t) ==
  LET q == DropOld(acc.recent_app_switches, t) IN
  IF Len(q) >= RapidSwitchCount
  THEN [acc EXCEPT !.events = Append(@, "rapid_app_switching"),
                   !.score = @ + Significance("rapid_app_switching"),
                   !.recent_app_switches = q]
  ELSE [acc EXCEPT !.recent_app_switches = q]

DetectRapidSwitching(acc, t) ==
  LET q == DropOld(acc.recent_app_switches, t) IN
  IF Len(q) >= RapidSwitchCount
  THEN [acc EXCEPT !.events = Append(@, "rapid_app_switching"),
                   !.score = @ + Significance("rapid_app_switching"),
                   !.recent_app_switches = <<>>]
  ELSE [acc EXCEPT !.recent_app_switches = q]

\* add_event without the forced trigger after MAX_INTERVAL_SECONDS
AddEventNoHeartbeat(acc, reason, t) ==
  LET a1 == [acc EXCEPT !.events = Append(@, reason),
                        !.score = @ + Significance(reason)]
      a2 == IF reason = "active_window_changed"
            THEN DetectRapidSwitching(
                   [a1 EXCEPT !.recent_app_switches =
                                 DequeAppend(@, t, SwitchesMaxlen)], t)
            ELSE a1
      elapsed == t - a2.last_trigger_at
  IN [acc |-> a2,
      ret |-> a2.score >= TRIGGER_THRESHOLD /\ elapsed >= MIN_INTERVAL_SECONDS]

\* add_event comparing the score with > instead of >=
AddEventStrict(acc, reason, t) ==
  LET a1 == [acc EXCEPT !.events = Append(@, reason),
                        !.score = @ + Significance(reason)]
      a2 == IF reason = "active_window_changed"
            THEN DetectRapidSwitching(
                   [a1 EXCEPT !.recent_app_switches =
                                 DequeAppend(@, t, SwitchesMaxlen)], t)
            ELSE a1
      elapsed == t - a2.last_trigger_at
  IN [acc |-> a2,
      ret |-> \/ elapsed >= MAX_INTERVAL_SECONDS /\ a2.events # <<>>
              \/ a2.score > TRIGGER_THRESHOLD /\ elapsed >= MIN_INTERVAL_SECONDS]

\* add_event: the accumulator after the call and the returned flag
AddEvent(acc, reason, t) ==
  LET a1 == [acc EXCEPT !.events = Append(@, reason),
                        !.score = @ + Significance(reason)]
      a2 == IF reason = "active_window_changed"
            THEN DetectRapidSwitching(
                   [a1 EXCEPT !.recent_app_switches =
                                 DequeAppend(@, t, SwitchesMaxlen)], t)
            ELSE a1
      elapsed == t - a2.last_trigger_at
  IN [acc |-> a2,
      ret |-> \/ elapsed >= MAX_INTERVAL_SECONDS /\ a2.events # <<>>
              \/ a2.score >= TRIGGER_THRESHOLD /\ elapsed >= MIN_INTERVAL_SECONDS]

\* reason_scores[r]: the summed significance of the buffered events of reason r
RECURSIVE ReasonScore(_, _)
ReasonScore(events, r) ==
  IF events = <<>> THEN 0
  ELSE (IF Head(events) = r THEN Significance(r) ELSE 0)
       + ReasonScore(Tail(events), r)

FirstIndex(events, r) ==
  CHOOSE i \in 1..Len(events) :
    events[i] = r /\ \A j \in 1..(i - 1) : events[j] # r

\* the reason of the most buffered events, the first seen among equals
DominantMostFrequent(events) ==
  IF events = <<>> THEN "none"
  ELSE LET rs == {events[i] : i \in 1..Len(events)}
           n(r) == Cardinality({i \in 1..Len(events) : events[i] = r})
           best == {r \in rs : \A q \in rs : n(q) <= n(r)}
       IN CHOOSE r \in best :
            \A q \in best : FirstIndex(events, r) <= FirstIndex(events, q)

\* max(reason_scores, key=reason_scores.get): the first inserted key among
\* those of maximal value
Dominant(events) ==
  IF events = <<>> THEN "none"
  ELSE LET rs == {events[i] : i \in 1..Len(events)}
           best == {r \in rs : \A q \in rs :
                       ReasonScore(events, q) <= ReasonScore(events, r)}
       IN CHOOSE r \in best :
            \A q \in best : FirstIndex(events, r) <= FirstIndex(events, q)

\* round(x, 1) of a value in hundredths (half to even on the tenths digit)
Round1(x) ==
  LET lo == (x \div 10) * 10
      rest == x - lo
  IN IF rest < 5 THEN lo
     ELSE IF rest > 5 THEN lo + 10
     ELSE IF (x \div 10) % 2 = 0 THEN lo ELSE lo + 10

CountReason(events, r) == Cardinality({i \in 1..Len(events) : events[i] = r})

\* consume that returns the summary and leaves the buffer and the score
ConsumeKeepEvents(acc, t) ==
  [acc |-> [acc EXCEPT !.started_at = t, !.last_trigger_at = t],
   summary |-> [total_score |-> Round1(acc.score),
                event_count |-> Len(acc.events),
                dominant_pattern |-> Dominant(acc.events),
                app_switches |-> CountReason(acc.events, "active_window_changed")]]

\* consume that forgets to reset the score
ConsumeKeepScore(acc, t) ==
  [acc |-> [acc EXCEPT !.events = <<>>,
                       !.started_at = t, !.last_trigger_at = t],
   summary |-> [total_score |-> Round1(acc.score),
                event_count |-> Len(acc.events),
                dominant_pattern |-> Dominant(acc.events),
                app_switches |-> CountReason(acc.events, "active_window_changed")]]

\* consume() that also forgets the sliding window of app switches
ConsumeClearWindow(acc, t) ==
  [acc |-> [acc EXCEPT !.events = <<>>, !.score = 0,
                       !.started_at = t, !.last_trigger_at = t,
                       !.recent_app_switches = <<>>],
   summary |-> [total_score |-> Round1(acc.score),
                event_count |-> Len(acc.events),
                dominant_pattern |-> Dominant(acc.events),
                app_switches |-> CountReason(acc.events, "active_window_changed")]]

\* consume: the accumulator after the call and the returned summary
Consume(acc, t) ==
  [acc |-> [acc EXCEPT !.events = <<>>, !.score = 0,
                       !.started_at = t, !.last_trigger_at = t],
   summary |-> [total_score |-> Round1(acc.score),
                event_count |-> Len(acc.events),
                dominant_pattern |-> Dominant(acc.events),
                app_switches |-> CountReason(acc.events, "active_window_changed")]]

\* ------------------------------------------------------------- inputs
\* error texts a failed network attempt can carry; hint is the number of
\* seconds the provider asked to wait (-1: the text names none)
ErrTimeout ==
  [text |-> <<"x">>, hint |-> -1]
ErrDelay3 ==
  [text |-> <<"R", " ", "D", "'", ":", " ", "'", "3", "s", "'">>, hint |-> 3]
ErrPlease12 ==
  [text |-> <<"4", "2", "9", " ", "P", " ", "1", "2", ".", "0", "1", "s">>,
   hint |-> 12]
ErrNoHint ==
  [text |-> <<"R", " ", "x">>, hint |-> -1]

NetErrors == {ErrTimeout, ErrDelay3, ErrPlease12, ErrNoHint}

Moods == {"chill"}

\* event batches handed over by sensor.pop_events() in one timer tick
Batches == {<<"frustration_pattern", "high_typing_burst">>}

AccReasons == {"active_window_changed", "window_dwell_timeout", "mystery"}

AccTimeSteps == {15, 60}

\* reasons whose cumulative scores can tie: 1.0 = 0.5 + 0.5, 3.0 = 3 * 1.0
TieReasons ==
  {"window_dwell_timeout", "high_typing_burst", "active_window_changed",
   "mystery"}

\* the clock is observed every TickSeconds
TickSeconds == 5

\* --------------------------------------------------- sensor.py: inputs
MaxSensorTime == 240
MaxQueue == 1

\* the sensor's clock is observed every SensorTickSeconds
SensorTickSeconds == 120

\* f"{app_name}::{title}"; "" is NoKey
ContextKey(app, title) == <<app, title>>
NoKey == <<>>
\* the front windows there are: B's title can always be read
Windows == {<<"A", "">>, <<"A", "t">>, <<"B", "t">>}
Keys == {ContextKey(w[1], w[2]) : w \in Windows}

\* what _get_idle_seconds can return, in whole seconds
IdleReadings == {0, 5, 10}

\* SystemSensor(dwell_minutes=2, idle_threshold_seconds=10)
DwellMinutesArg == 2
IdleThresholdArg == 10
dwell_seconds_threshold == Max(1, DwellMinutesArg) * 60
idle_threshold_seconds == Max(1, IdleThresholdArg)
IdleRearmBelow == 2
BehaviorCheckSeconds == 10

\* what the input monitors report at a behaviour check: backspace ratio in
\* percent, clicks and keys per minute, sighs
BehaviorStats ==
  {[backspace_ratio |-> 0, clicks_per_min |-> 0, typing_speed |-> 0, sighs |-> 0],
   [backspace_ratio |-> 10, clicks_per_min |-> 5, typing_speed |-> 150, sighs |-> 0]}

\* ------------------------------------------- sensor.py: input monitors
MaxInputTime == 70
MaxFallbackTime == 15
MaxHeartbeatTime == 240
MaxPushes == 2
MaxPolls == 8
MaxIndex == 3
MaxRun == 3
MaxSighs == 2

\* the monitors' clock is observed every InputTickSeconds
InputTickSeconds == 35
InputTimes == {k * InputTickSeconds : k \in 0..(MaxInputTime \div InputTickSeconds)}

\* the producers of behavioural stats
Producers == {"mouse", "keyboard", "audio"}

\* clicks that arrive within one clock reading
ClickBursts == {31}

\* key presses that arrive within one clock reading, and how many of them
\* are backspaces
KeyBursts ==
  {[keys |-> 3, backspaces |-> 1], [keys |-> 7, backspaces |-> 2]}

\* amplitude / ambient level of one 0.5s chunk, in tenths; -1: sd.rec raised
ChunkRatios == {-1, 10, 20, 80, 81}

\* -------------------------------------------------------------- state
VARIABLES
  now,                   \* time.time()
  accumulator,           \* BoniApp.accumulator
  add_ret,               \* what add_event returned, when it was the last call
  summary,               \* what consume() returned, when it was the last call
  ops,                   \* the last call made on the accumulator directly
  brain,                 \* BoniApp.brain: 0 is None, else the instance
  nBrains,               \* BoniBrain instances constructed so far
  quota_retry_after_ts,  \* BoniBrain._quota_retry_after_ts, per instance
  update_lock,           \* BoniApp._update_lock is held
  threads,               \* background threads: pipelines and pet reactions
  nThreads,              \* threads started so far
  pending_update,        \* BoniApp._pending_update
  current_mood,          \* BoniApp.current_mood
  startup_done,          \* the one-shot _startup timer has fired
  nTrig,                 \* calls of _trigger_ai_update so far
  heldAtArrival,         \* the calls that found the gate held
  nPets,                 \* calls of _on_pet so far
  recorded,              \* per kind of thread: the latest deadline its calls stored
  update,                \* _apply_pending's local update; NoUpdate outside the handler
  front_app,             \* the frontmost application
  front_title,           \* the title of its front window ("" when it cannot be read)
  activation_pending,    \* an app-activation notification awaits delivery
  last_context_key,      \* SystemSensor._last_context_key
  last_app_name,         \* SystemSensor._last_app_name
  last_title,            \* SystemSensor._last_title
  context_started_at,    \* SystemSensor._context_started_at
  dwell_fired_for_key,   \* SystemSensor._dwell_fired_for_key
  idle_triggered,        \* SystemSensor._idle_triggered
  last_behavior_check,   \* SystemSensor._last_behavior_check
  sensor_events,         \* SystemSensor._events
  mon,                   \* the _monitor_loop thread: position and locals
  cb,                    \* the _on_workspace_activate callback: position and locals
  dwell_emitted,         \* per key: dwell events pushed since the last context change
  first_switch,          \* while the user has switched app once: the active_window_changed events pushed since
  running,               \* SystemSensor._running
  listeners,             \* per pynput monitor: _listener is set and delivers events
  monitor_thread,        \* the _monitor_loop thread was started
  clicks,                \* _MouseMonitor._clicks: per clock reading, the clicks stamped with it
  keyboard,              \* _KeyboardMonitor: _keystrokes (as clicks), _backspaces, _total_keys
  audio,                 \* _AudioMonitor and its thread: position, _calibrated, _sighs, elevated_chunks
  beh,                   \* _check_behavior_patterns: position and the stats it has read
  behavior_pushed,       \* the reasons the last behavioural check pushed
  events_lock,           \* SystemSensor._lock: "free" or the thread that holds it
  push,                  \* per producer thread: position in _push_event, events built so far
  pop,                   \* pop_events on the timer thread: position and the local events
  returned,              \* the events pop_events calls have returned, in order
  push_log,              \* the events in the order of their append
  idle_sensor,           \* a SystemSensor of any idle threshold, its idle check
  index,                 \* the datapoints of the deployed vector index
  search                 \* the last VectorSearchClient.search: arguments, result

vars ==
  <<now, accumulator, add_ret, summary, ops, brain, nBrains, quota_retry_after_ts,
    update_lock, threads, nThreads, pending_update, current_mood,
    startup_done, nTrig, heldAtArrival, nPets, recorded, update,
    front_app, front_title, activation_pending, last_context_key,
    last_app_name, last_title, context_started_at, dwell_fired_for_key,
    idle_triggered, last_behavior_check, sensor_events, mon, cb,
    dwell_emitted, first_switch, running, listeners, monitor_thread, clicks, keyboard,
    audio, beh, behavior_pushed, events_lock, push, pop, returned, push_log,
    idle_sensor, index, search>>

accVars == <<accumulator, add_ret, summary, ops>>
appVars ==
  <<brain, nBrains, quota_retry_after_ts, update_lock, threads, nThreads,
    pending_update, current_mood, startup_done, nTrig, heldAtArrival, nPets,
    recorded, update>>

worldVars == <<front_app, front_title, activation_pending>>
ctxVars ==
  <<last_context_key, last_app_name, last_title, context_started_at>>
sensorVars ==
  <<worldVars, ctxVars, dwell_fired_for_key, idle_triggered,
    last_behavior_check, sensor_events, mon, cb, dwell_emitted, first_switch>>

queueVars == <<events_lock, push, pop, returned, push_log>>

\* the state of the specifications of single components
idleVars == <<idle_sensor>>

indexVars == <<index, search>>

auxVars == <<queueVars, idleVars, indexVars>>

inputVars ==
  <<running, listeners, monitor_thread, clicks, keyboard, audio, beh,
    behavior_pushed>>

MaxThreads == MaxTriggers + MaxPets
BrainIds == 1..MaxBrains
Kinds == {"bg", "pet"}
ThreadIds == 1..MaxThreads

\* the threads that call _push_event
PushThreads == {"monitor", "callback"}

\* pop_events between two calls
PopIdle == [pc |-> "idle", events |-> <<>>]

\* a list of time stamps, as the number of stamps per clock reading
NoStamps == [u \in InputTimes |-> 0]

\* _check_behavior_patterns between two calls
BehIdle == [pc |-> "idle", clicks_per_min |-> 0, typing_speed |-> 0,
            backspace_ratio |-> 0, sighs |-> 0]

\* the locals of a thread of the sensor between two runs
\* no SystemSensor of a chosen threshold exists yet
NotConstructed ==
  [idle_threshold_seconds |-> 0, idle_triggered |-> FALSE, polls |-> 0,
   run_events |-> 0]

\* no search has been issued yet
NoSearch == [user_id |-> <<>>, top_k |-> 0, results |-> <<>>]

MonIdleLocals == [pc |-> "sleep", app |-> "", title |-> "", idle |-> 0, t |-> 0]
CbIdleLocals == [pc |-> "idle", app |-> "", title |-> "", t |-> 0]

NoSummary ==
  [total_score |-> 0, event_count |-> 0, dominant_pattern |-> "none",
   app_switches |-> 0]
NoCtx == [given |-> FALSE]
NoResult == [kind |-> "none", mood |-> "none", remaining |-> 0, line |-> "none"]
NoUpdate == [from |-> "none", mood |-> "none"]

\* a slot of the thread table: kind "none" is a thread not started yet
IdleThread ==
  [kind |-> "none", pc |-> "none", trig |-> 0, ctx |-> NoCtx, snap |-> "none",
   recall |-> "none",
   b |-> 0, mood |-> "none", attempt |-> 0, val |-> 0, owes |-> 0,
   result |-> NoResult]

Init ==
  /\ now = 0
  /\ accumulator = NewAccumulator(0)
  /\ add_ret = FALSE
  /\ summary = NoSummary
  /\ ops = "none"
  /\ brain \in {0, 1}
  /\ nBrains = brain
  /\ quota_retry_after_ts = [b \in BrainIds |-> 0]
  /\ update_lock = FALSE
  /\ threads = [i \in ThreadIds |-> IdleThread]
  /\ nThreads = 0
  /\ pending_update = NoUpdate
  /\ current_mood \in Moods
  /\ startup_done = FALSE
  /\ nTrig = 0
  /\ heldAtArrival = {}
  /\ nPets = 0
  /\ recorded = [k \in Kinds |-> 0]
  /\ update = NoUpdate
  /\ front_app = "A"
  /\ front_title = "t"
  /\ activation_pending = FALSE
  /\ last_context_key = NoKey
  /\ last_app_name = ""
  /\ last_title = ""
  /\ context_started_at = 0
  /\ dwell_fired_for_key = {}
  /\ idle_triggered = FALSE
  /\ last_behavior_check = 0
  /\ sensor_events = <<>>
  /\ mon = MonIdleLocals
  /\ cb = CbIdleLocals
  /\ dwell_emitted = [k \in Keys |-> 0]
  /\ first_switch = [switches |-> 0, events |-> 0]
  /\ running = FALSE
  /\ listeners = [p \in {"mouse", "keyboard"} |-> FALSE]
  /\ monitor_thread = FALSE
  /\ clicks = NoStamps
  /\ keyboard = [keystrokes |-> NoStamps, backspaces |-> 0, total_keys |-> 0]
  /\ audio = [pc |-> "off", calibrated |-> FALSE, sighs |-> 0,
              elevated_chunks |-> 0]
  /\ beh = BehIdle
  /\ behavior_pushed = <<>>
  /\ events_lock = "free"
  /\ push = [p \in PushThreads |-> [pc |-> "idle", n |-> 0]]
  /\ pop = PopIdle
  /\ returned = <<>>
  /\ push_log = <<>>
  /\ idle_sensor = NotConstructed
  /\ index = <<>>
  /\ search = NoSearch

\* ------------------------------------------------------------ brain.py
InQuotaCooldown(ts, t) == t < ts

FallbackLine(dominant) ==
  CASE dominant \in {"active_window_changed", "rapid_app_switching"} -> "curious"
    [] dominant = "active_window_title_changed" -> "title"
    [] dominant = "window_dwell_timeout" -> "dwell"
    [] dominant = "system_idle_threshold" -> "idle"
    [] dominant \in {"frustration_pattern", "sigh_detected"} -> "comfort"
    [] OTHER -> "rest"

\* the fallback without the floor of one second
QuotaFallbackNoFloor(ts, t, mood, ctx) ==
  [kind |-> "fallback", mood |-> mood, remaining |-> ts - t,
   line |-> FallbackLine(IF ctx.given THEN ctx.summary.dominant_pattern ELSE "")]

\* _quota_fallback at time t with the deadline ts
QuotaFallback(ts, t, mood, ctx) ==
  [kind |-> "fallback", mood |-> mood, remaining |-> Max(1, ts - t),
   line |-> FallbackLine(IF ctx.given THEN ctx.summary.dominant_pattern ELSE "")]

\* fixed replies that all leave the mood out
ApologyNoMood(kind, mood) ==
  [kind |-> "apology", mood |-> "absent", remaining |-> 0,
   line |-> IF kind = "bg" THEN "froze" ELSE "touch"]

\* the fixed replies of react and pet_react after a failure outside cooldown
Apology(kind, mood) ==
  IF kind = "bg"
  THEN [kind |-> "apology", mood |-> mood, remaining |-> 0, line |-> "froze"]
  ELSE [kind |-> "apology", mood |-> "absent", remaining |-> 0, line |-> "touch"]

\* max(self._quota_retry_after_ts, time.time() + wait_seconds)
BackoffDeadline(read, t, wait) == Max(read, t + wait)

\* ----------------------------------------------------------- memory.py
\* what the backend answers to a POST: no answer (connection error, timeout
\* after TIMEOUT seconds) or a response with a status and a body
Transports == {"connection_error", "timeout", "response"}
Statuses == {200, 404, 500}
Bodies == {"not_json", "array", "object", "object_memories"}
Replies ==
  {[transport |-> t,
    status |-> IF t = "response" THEN st ELSE 0,
    body |-> IF t = "response" THEN b ELSE "none"] :
     t \in Transports, st \in Statuses, b \in Bodies}

\* the replies a pipeline's recall gets
PipelineReplies ==
  {[transport |-> "timeout", status |-> 0, body |-> "none"],
   [transport |-> "response", status |-> 200, body |-> "object_memories"]}

\* the list under "memories" of the body "object_memories"
SomeMemories == <<"memory">>

\* how a call ends: with an exception, or returning v
Raised(v) == [raised |-> TRUE, value |-> v]
Returned(v) == [raised |-> FALSE, value |-> v]

\* requests.post(..., timeout=self.TIMEOUT) returns and resp.raise_for_status()
\* does not raise
PostOk(reply) == reply.transport = "response" /\ reply.status < 400

\* resp.json() returns, and what it returns has .get
JsonObject(reply) == reply.body \in {"object", "object_memories"}

\* the try block of store
StoreTry(reply) ==
  IF PostOk(reply) /\ JsonObject(reply) THEN Returned(TRUE) ELSE Raised(FALSE)

\* store without its except clause
StoreNoExcept(reply) == StoreTry(reply)

\* store: except Exception: return False
Store(reply) ==
  LET r == StoreTry(reply) IN IF r.raised THEN Returned(FALSE) ELSE r

\* the try block of recall: data.get("memories", [])
RecallTry(reply) ==
  IF PostOk(reply) /\ JsonObject(reply)
  THEN Returned(IF reply.body = "object_memories" THEN SomeMemories ELSE <<>>)
  ELSE Raised(<<>>)

\* recall without its except clause
RecallNoExcept(reply) == RecallTry(reply)

\* recall: except Exception: return []
Recall(reply) ==
  LET r == RecallTry(reply) IN IF r.raised THEN Returned(<<>>) ELSE r

\* ------------------------------------------------------ app.py: threads
TryAcquireBlind(held) == TRUE

\* self._update_lock.acquire(blocking=False)
TryAcquire(held) == ~held

SetThread(i, rec) == threads' = [threads EXCEPT ![i] = rec]

Finished(th) ==
  [IdleThread EXCEPT !.kind = th.kind, !.pc = "done", !.trig = th.trig]

\* a gate that queues: the call that finds the gate held starts its thread too
TriggerAiUpdateQueued(ctx, started) ==
  /\ nTrig' = nTrig + 1
  /\ update_lock' = TRUE
  /\ heldAtArrival' = IF update_lock THEN heldAtArrival \cup {nTrig + 1}
                      ELSE heldAtArrival
  /\ IF started
     THEN /\ nThreads' = nThreads + 1
          /\ SetThread(nThreads + 1,
               [IdleThread EXCEPT !.kind = "bg", !.pc = "collect",
                                  !.trig = nTrig + 1, !.ctx = ctx])
     ELSE UNCHANGED <<nThreads, threads>>

\* _trigger_ai_update: started is whether Thread.start() succeeded
TriggerAiUpdate(ctx, started) ==
  /\ nTrig' = nTrig + 1
  /\ IF TryAcquire(update_lock)
     THEN /\ update_lock' = TRUE
          /\ heldAtArrival' = heldAtArrival
          /\ IF started
             THEN /\ nThreads' = nThreads + 1
                  /\ SetThread(nThreads + 1,
                       [IdleThread EXCEPT !.kind = "bg", !.pc = "collect",
                                          !.trig = nTrig + 1, !.ctx = ctx])
             ELSE UNCHANGED <<nThreads, threads>>
     ELSE /\ heldAtArrival' = heldAtArrival \cup {nTrig + 1}
          /\ UNCHANGED <<update_lock, nThreads, threads>>

\* bg(): metrics = self.sensor.collect(); with a summary, snapshot =
\* self.sensor.capture_snapshot(0.0) (raises when the full-screen fallback
\* fails too); memories = self.memory.recall(...), the memory system being
\* active; recall keeps how the backend answered
BgPrepare(i) ==
  LET th == threads[i] IN
  /\ th.kind = "bg" /\ th.pc = "collect"
  /\ \E collected \in BOOLEAN :
     \E scope \in {"active_window", "full_screen_fallback", "raise"} :
     \E reply \in PipelineReplies :
       SetThread(i,
         IF ~collected THEN [th EXCEPT !.pc = "release"]
         ELSE IF th.ctx.given /\ scope = "raise"
              THEN [th EXCEPT !.pc = "release", !.snap = "failed"]
         ELSE IF Recall(reply).raised
              THEN [th EXCEPT !.pc = "release", !.recall = reply.transport]
         ELSE [th EXCEPT !.pc = "react", !.recall = reply.transport,
                         !.snap = IF th.ctx.given THEN scope ELSE "none"])
  /\ UNCHANGED <<sensorVars, inputVars, auxVars, update>>
  /\ UNCHANGED <<now, accVars, brain, nBrains, quota_retry_after_ts, update_lock,
                 nThreads, pending_update, current_mood, startup_done, nTrig,
                 heldAtArrival, nPets, recorded>>

\* entry of self.brain.react(...) / self.brain.pet_react(...): the cooldown check
ReactEntry(i) ==
  LET th == threads[i] IN
  /\ th.kind \in {"bg", "pet"} /\ th.pc = "react"
  /\ SetThread(i,
       IF InQuotaCooldown(quota_retry_after_ts[brain], now)
       THEN [th EXCEPT !.b = brain, !.pc = "publish", !.ctx = NoCtx,
                       !.snap = "none", !.recall = "none",
                       !.result = QuotaFallback(quota_retry_after_ts[brain], now,
                                                current_mood, th.ctx)]
       ELSE [th EXCEPT !.b = brain, !.mood = current_mood, !.pc = "call",
                       !.recall = "none"])
  /\ UNCHANGED <<sensorVars, inputVars, auxVars, update>>
  /\ UNCHANGED <<now, accVars, brain, nBrains, quota_retry_after_ts, update_lock,
                 nThreads, pending_update, current_mood, startup_done, nTrig,
                 heldAtArrival, nPets, recorded>>

\* react: the first request is sent, unless open(snapshot_path) raises first
\* and the text-only request is sent instead; pet_react: the request is sent
CallInitiate(i) ==
  LET th == threads[i] IN
  /\ th.pc = "call"
  /\ \E opened \in BOOLEAN :
       /\ ~opened => (th.kind = "bg" /\ th.snap # "none")
       /\ SetThread(i, [th EXCEPT !.pc = "gen", !.snap = "none",
                                  !.attempt = IF opened THEN 1 ELSE 2])
  /\ UNCHANGED <<sensorVars, inputVars, auxVars, update>>
  /\ UNCHANGED <<now, accVars, brain, nBrains, quota_retry_after_ts, update_lock,
                 nThreads, pending_update, current_mood, startup_done, nTrig,
                 heldAtArrival, nPets, recorded>>

\* the request returns a reply that _parse turns into a result
GenSuccess(i) ==
  LET th == threads[i] IN
  /\ th.pc = "gen"
  /\ \E m \in Moods :
       SetThread(i, [th EXCEPT !.pc = "publish", !.owes = 0, !.mood = "none",
                               !.ctx = NoCtx,
                               !.result = [kind |-> "model", mood |-> m,
                                           remaining |-> 0, line |-> "model"]])
  /\ UNCHANGED <<sensorVars, inputVars, auxVars, update>>
  /\ UNCHANGED <<now, accVars, brain, nBrains, quota_retry_after_ts, update_lock,
                 nThreads, pending_update, current_mood, startup_done, nTrig,
                 heldAtArrival, nPets, recorded>>

\* what the call owes the cooldown once a request of it raised e at time t:
\* the latest (time of error + max(hint, 5)) over its rate-limit errors
Owes(th, e, t) ==
  IF e.hint >= 0 THEN Max(th.owes, t + Max(e.hint, MinRetryDelay)) ELSE th.owes

\* react whose first failed request already records its rate-limit error
GenFailRetryRecords(i) ==
  LET th == threads[i] IN
  /\ th.pc = "gen" /\ th.kind = "bg" /\ th.attempt = 1
  /\ \E e \in NetErrors :
       /\ SetThread(i, [th EXCEPT !.attempt = 2, !.owes = Owes(th, e, now)])
       /\ quota_retry_after_ts' =
            [quota_retry_after_ts EXCEPT
               ![th.b] = IF IsRateLimitText(e.text)
                         THEN BackoffDeadline(@, now,
                                ExtractRetryDelaySeconds(e.text))
                         ELSE @]
  /\ UNCHANGED <<sensorVars, inputVars, auxVars, update>>
  /\ UNCHANGED <<now, accVars, brain, nBrains, update_lock,
                 nThreads, pending_update, current_mood, startup_done, nTrig,
                 heldAtArrival, nPets, recorded>>

\* react: the first request raises; the text-only request is sent at once
GenFailRetry(i) ==
  LET th == threads[i] IN
  /\ th.pc = "gen" /\ th.kind = "bg" /\ th.attempt = 1
  /\ \E e \in NetErrors :
       SetThread(i, [th EXCEPT !.attempt = 2, !.owes = Owes(th, e, now)])
  /\ UNCHANGED <<sensorVars, inputVars, auxVars, update>>
  /\ UNCHANGED <<now, accVars, brain, nBrains, quota_retry_after_ts, update_lock,
                 nThreads, pending_update, current_mood, startup_done, nTrig,
                 heldAtArrival, nPets, recorded>>

\* the last request of the call raises a rate-limit error: _record_quota_backoff
\* extracts the wait, loads self._quota_retry_after_ts and reads the clock
GenFailRateLimit(i) ==
  LET th == threads[i] IN
  /\ th.pc = "gen" /\ (th.kind = "pet" \/ th.attempt = 2)
  /\ \E e \in NetErrors :
       /\ IsRateLimitText(e.text)
       /\ SetThread(i,
            [th EXCEPT !.owes = Owes(th, e, now),
                       !.val = BackoffDeadline(quota_retry_after_ts[th.b], now,
                                               ExtractRetryDelaySeconds(e.text)),
                       !.pc = "rec_write"])
  /\ UNCHANGED <<sensorVars, inputVars, auxVars, update>>
  /\ UNCHANGED <<now, accVars, brain, nBrains, quota_retry_after_ts, update_lock,
                 nThreads, pending_update, current_mood, startup_done, nTrig,
                 heldAtArrival, nPets, recorded>>

\* the cooldown fallback or the fixed apology, after _record_quota_backoff
AfterBackoff(th, t) ==
  LET ts == quota_retry_after_ts[th.b] IN
  [th EXCEPT !.pc = "publish", !.val = 0, !.owes = 0, !.mood = "none",
             !.ctx = NoCtx,
             !.result = IF InQuotaCooldown(ts, t)
                        THEN QuotaFallback(ts, t, th.mood, th.ctx)
                        ELSE Apology(th.kind, th.mood)]

\* the last request of the call raises another error: _record_quota_backoff
\* returns at once, then the cooldown is checked again
GenFailOther(i) ==
  LET th == threads[i] IN
  /\ th.pc = "gen" /\ (th.kind = "pet" \/ th.attempt = 2)
  /\ \E e \in NetErrors :
       /\ ~IsRateLimitText(e.text)
       /\ SetThread(i, AfterBackoff([th EXCEPT !.owes = Owes(th, e, now)], now))
  /\ UNCHANGED <<sensorVars, inputVars, auxVars, update>>
  /\ UNCHANGED <<now, accVars, brain, nBrains, quota_retry_after_ts, update_lock,
                 nThreads, pending_update, current_mood, startup_done, nTrig,
                 heldAtArrival, nPets, recorded>>

\* _record_quota_backoff: the store into self._quota_retry_after_ts
RecWrite(i) ==
  LET th == threads[i] IN
  /\ th.pc = "rec_write"
  /\ quota_retry_after_ts' = [quota_retry_after_ts EXCEPT ![th.b] = th.val]
  /\ recorded' = [recorded EXCEPT ![th.kind] = Max(@, th.val)]
  /\ SetThread(i, [th EXCEPT !.pc = "recheck", !.val = 0])
  /\ UNCHANGED <<sensorVars, inputVars, auxVars, update>>
  /\ UNCHANGED <<now, accVars, brain, nBrains, update_lock,
                 nThreads, pending_update, current_mood, startup_done, nTrig,
                 heldAtArrival, nPets>>

\* if self._in_quota_cooldown(): the fallback, else the fixed apology
Recheck(i) ==
  LET th == threads[i] IN
  /\ th.pc = "recheck"
  /\ SetThread(i, AfterBackoff(th, now))
  /\ UNCHANGED <<sensorVars, inputVars, auxVars, update>>
  /\ UNCHANGED <<now, accVars, brain, nBrains, quota_retry_after_ts, update_lock,
                 nThreads, pending_update, current_mood, startup_done, nTrig,
                 heldAtArrival, nPets, recorded>>

\* self._pending_update = {...}: who wrote it, and of the result what
\* _apply_ai_result reads for the mood (pet: setdefault("mood", current))
Publish(i) ==
  LET th == threads[i] IN
  /\ th.pc = "publish"
  /\ pending_update' =
       [from |-> th.kind,
        mood |-> IF th.result.mood = "absent" THEN current_mood ELSE th.result.mood]
  /\ SetThread(i, IF th.kind = "bg" THEN [th EXCEPT !.pc = "release"] ELSE Finished(th))
  /\ UNCHANGED <<sensorVars, inputVars, auxVars, update>>
  /\ UNCHANGED <<now, accVars, brain, nBrains, quota_retry_after_ts, update_lock,
                 nThreads, current_mood, startup_done, nTrig,
                 heldAtArrival, nPets, recorded>>

\* bg(): finally: self._update_lock.release()
BgRelease(i) ==
  LET th == threads[i] IN
  /\ th.kind = "bg" /\ th.pc = "release"
  /\ update_lock' = FALSE
  /\ SetThread(i, Finished(th))
  /\ UNCHANGED <<sensorVars, inputVars, auxVars, update>>
  /\ UNCHANGED <<now, accVars, brain, nBrains, quota_retry_after_ts,
                 nThreads, pending_update, current_mood, startup_done, nTrig,
                 heldAtArrival, nPets, recorded>>

\* ----------------------------------------------- app.py: main thread
\* the handlers of the main thread run one after the other
MainIdle == update = NoUpdate

\* time passes
Tick ==
  /\ now + TickSeconds <= MaxTime
  /\ now' = now + TickSeconds
  /\ UNCHANGED <<sensorVars, inputVars, auxVars>>
  /\ UNCHANGED <<accVars, appVars>>

\* _startup: the one-shot 2s timer
Startup ==
  /\ MainIdle
  /\ ~startup_done
  /\ nTrig < MaxTriggers
  /\ startup_done' = TRUE
  /\ IF brain # 0
     THEN \E started \in BOOLEAN : TriggerAiUpdate(NoCtx, started)
     ELSE UNCHANGED <<update_lock, threads, nThreads, nTrig, heldAtArrival>>
  /\ UNCHANGED <<sensorVars, inputVars, auxVars, update>>
  /\ UNCHANGED <<now, accVars, brain, nBrains, quota_retry_after_ts,
                 pending_update, current_mood, nPets, recorded>>

\* the loop that stops at the first add_event that returns True and drops
\* the rest of the batch
RECURSIVE AddUntilTrue(_, _, _, _)
AddUntilTrue(acc, batch, t, should) ==
  IF batch = <<>> \/ should THEN [acc |-> acc, should |-> should]
  ELSE LET r == AddEvent(acc, Head(batch), t) IN
       AddUntilTrue(r.acc, Tail(batch), t, r.ret)

\* for event in events: if self.accumulator.add_event(event): should_trigger = True
RECURSIVE AddAll(_, _, _, _)
AddAll(acc, batch, t, should) ==
  IF batch = <<>> THEN [acc |-> acc, should |-> should]
  ELSE LET r == AddEvent(acc, Head(batch), t) IN
       AddAll(r.acc, Tail(batch), t, should \/ r.ret)

\* _consume_sensor_events: the 0.5s timer, for the batch pop_events() returns
ConsumeSensorEvents ==
  /\ MainIdle
  /\ brain # 0
  /\ \E batch \in Batches :
       LET r == AddAll(accumulator, batch, now, FALSE) IN
       /\ Len(accumulator.events) + Len(batch) <= MaxBuf
       /\ IF r.should
          THEN LET c == Consume(r.acc, now) IN
               /\ nTrig < MaxTriggers
               /\ accumulator' = c.acc
               /\ \E started \in BOOLEAN :
                    TriggerAiUpdate([given |-> TRUE, summary |-> c.summary], started)
          ELSE /\ accumulator' = r.acc
               /\ UNCHANGED <<update_lock, threads, nThreads, nTrig, heldAtArrival>>
  /\ UNCHANGED <<sensorVars, inputVars, auxVars, update>>
  /\ UNCHANGED <<now, add_ret, summary, ops, brain, nBrains, quota_retry_after_ts, pending_update,
                 current_mood, startup_done, nPets, recorded>>

\* _apply_pending, the 0.5s timer: if self._pending_update is not None:
\* update = self._pending_update
ApplyRead ==
  /\ MainIdle
  /\ pending_update # NoUpdate
  /\ update' = pending_update
  /\ UNCHANGED <<sensorVars, inputVars, auxVars>>
  /\ UNCHANGED <<now, accVars, brain, nBrains, quota_retry_after_ts, update_lock,
                 threads, nThreads, pending_update, current_mood, startup_done,
                 nTrig, heldAtArrival, nPets, recorded>>

\* self._pending_update = None; self._apply_ai_result(update)
ApplyClear ==
  /\ ~MainIdle
  /\ pending_update' = NoUpdate
  /\ current_mood' = update.mood
  /\ update' = NoUpdate
  /\ UNCHANGED <<sensorVars, inputVars, auxVars>>
  /\ UNCHANGED <<now, accVars, brain, nBrains, quota_retry_after_ts, update_lock,
                 threads, nThreads, startup_done, nTrig, heldAtArrival, nPets,
                 recorded>>

\* _apply_pending / _apply_ai_result: the 0.5s timer empties the mailbox
ApplyPending ==
  \/ ApplyRead
  \/ ApplyClear

\* _on_pet: starts a thread that calls pet_react; no gate
OnPet ==
  /\ MainIdle
  /\ brain # 0
  /\ nPets < MaxPets
  /\ nPets' = nPets + 1
  /\ nThreads' = nThreads + 1
  /\ SetThread(nThreads + 1, [IdleThread EXCEPT !.kind = "pet", !.pc = "react"])
  /\ UNCHANGED <<sensorVars, inputVars, auxVars, update>>
  /\ UNCHANGED <<now, accVars, brain, nBrains, quota_retry_after_ts, update_lock,
                 pending_update, current_mood, startup_done, nTrig,
                 heldAtArrival, recorded>>

\* _on_set_api_key: a non-empty key was saved
OnSetApiKey ==
  /\ MainIdle
  /\ nBrains < MaxBrains
  /\ nTrig < MaxTriggers
  /\ nBrains' = nBrains + 1
  /\ brain' = nBrains + 1
  /\ \E started \in BOOLEAN : TriggerAiUpdate(NoCtx, started)
  /\ UNCHANGED <<sensorVars, inputVars, auxVars, update>>
  /\ UNCHANGED <<now, accVars, quota_retry_after_ts, pending_update,
                 current_mood, startup_done, nPets, recorded>>

ThreadStep(i) ==
  \/ BgPrepare(i)
  \/ ReactEntry(i)
  \/ CallInitiate(i)
  \/ GenSuccess(i)
  \/ GenFailRetry(i)
  \/ GenFailRateLimit(i)
  \/ GenFailOther(i)
  \/ RecWrite(i)
  \/ Recheck(i)
  \/ Publish(i)
  \/ BgRelease(i)

Next ==
  \/ Tick
  \/ Startup
  \/ ConsumeSensorEvents
  \/ ApplyPending
  \/ OnPet
  \/ OnSetApiKey
  \/ \E i \in ThreadIds : ThreadStep(i)

Spec == Init /\ [][Next]_vars

\* a started thread keeps running: collect, capture, the request (bounded by
\* the client's timeout) and the finally clause all return
FairSpec == Spec /\ \A i \in ThreadIds : WF_vars(ThreadStep(i))

\* ------------------------------------- the accumulator, called directly
AccAddEvent ==
  /\ Len(accumulator.events) < MaxBuf
  /\ \E reason \in AccReasons :
       LET r == AddEvent(accumulator, reason, now) IN
       /\ accumulator' = r.acc
       /\ add_ret' = r.ret
  /\ summary' = NoSummary
  /\ ops' = "add"
  /\ UNCHANGED <<sensorVars, inputVars, auxVars>>
  /\ UNCHANGED <<now, appVars>>

AccConsume ==
  /\ LET c == Consume(accumulator, now) IN
       /\ accumulator' = c.acc
       /\ summary' = c.summary
  /\ add_ret' = FALSE
  /\ ops' = "consume"
  /\ UNCHANGED <<sensorVars, inputVars, auxVars>>
  /\ UNCHANGED <<now, appVars>>

AccAdvance ==
  /\ \E dt \in AccTimeSteps :
       /\ now + dt <= MaxAccTime
       /\ now' = now + dt
  /\ UNCHANGED <<sensorVars, inputVars, auxVars>>
  /\ UNCHANGED <<accumulator, add_ret, summary, ops, appVars>>

NextAcc ==
  \/ AccAddEvent
  \/ AccConsume
  \/ AccAdvance

SpecAcc == Init /\ [][NextAcc]_vars

\* add_event with the reasons of TieReasons, all within one clock reading
AccAddTieEvent ==
  /\ Len(accumulator.events) < MaxBuf
  /\ \E reason \in TieReasons :
       LET r == AddEvent(accumulator, reason, now) IN
       /\ accumulator' = r.acc
       /\ add_ret' = r.ret
  /\ summary' = NoSummary
  /\ ops' = "add"
  /\ UNCHANGED <<sensorVars, inputVars, auxVars>>
  /\ UNCHANGED <<now, appVars>>

NextDominant ==
  \/ AccAddTieEvent
  \/ AccConsume

SpecDominant == Init /\ [][NextDominant]_vars

\* ------------------------------------- sensor.py: the event queue
\* the queue with the event at its head
EnqueueFront(q, ev) == <<ev>> \o q

\* self._events.append(ev_dict)
Enqueue(q, ev) == Append(q, ev)

\* the sensor's state but the queue
sensorButEvents ==
  <<worldVars, ctxVars, dwell_fired_for_key, idle_triggered,
    last_behavior_check, mon, cb, dwell_emitted, first_switch>>

\* _push_event: the event is built (TriggerEvent, to_dict, extra)
PushBuild(p) ==
  /\ push[p].pc = "idle"
  /\ push[p].n < MaxPushes
  /\ push' = [push EXCEPT ![p] = [pc |-> "built", n |-> @.n + 1]]
  /\ UNCHANGED <<now, accVars, appVars, sensorVars, inputVars, idleVars, indexVars, events_lock,
                 pop, returned, push_log>>

\* with self._lock:
PushLock(p) ==
  /\ push[p].pc = "built"
  /\ events_lock = "free"
  /\ events_lock' = p
  /\ push' = [push EXCEPT ![p].pc = "locked"]
  /\ UNCHANGED <<now, accVars, appVars, sensorVars, inputVars, idleVars, indexVars, pop, returned,
                 push_log>>

\* self._events.append(ev_dict), and the lock is released
PushAppend(p) ==
  /\ push[p].pc = "locked"
  /\ sensor_events' = Enqueue(sensor_events, <<p, push[p].n>>)
  /\ push_log' = Append(push_log, <<p, push[p].n>>)
  /\ events_lock' = "free"
  /\ push' = [push EXCEPT ![p].pc = "idle"]
  /\ UNCHANGED <<now, accVars, appVars, sensorButEvents, inputVars, idleVars, indexVars, pop,
                 returned>>

\* pop_events: with self._lock:
PopLock ==
  /\ pop.pc = "idle"
  /\ events_lock = "free"
  /\ events_lock' = "timer"
  /\ pop' = [pop EXCEPT !.pc = "locked"]
  /\ UNCHANGED <<now, accVars, appVars, sensorVars, inputVars, idleVars, indexVars, push, returned,
                 push_log>>

\* events = self._events
PopRead ==
  /\ pop.pc = "locked"
  /\ pop' = [pc |-> "read", events |-> sensor_events]
  /\ UNCHANGED <<now, accVars, appVars, sensorVars, inputVars, idleVars, indexVars, events_lock,
                 push, returned, push_log>>

\* self._events = [], and the lock is released
PopClear ==
  /\ pop.pc = "read"
  /\ sensor_events' = <<>>
  /\ events_lock' = "free"
  /\ pop' = [pop EXCEPT !.pc = "return"]
  /\ UNCHANGED <<now, accVars, appVars, sensorButEvents, inputVars, idleVars, indexVars, push,
                 returned, push_log>>

\* return events
PopReturn ==
  /\ pop.pc = "return"
  /\ returned' = returned \o pop.events
  /\ pop' = PopIdle
  /\ UNCHANGED <<now, accVars, appVars, sensorVars, inputVars, idleVars, indexVars, events_lock,
                 push, push_log>>

NextQueue ==
  \/ \E p \in PushThreads :
       \/ PushBuild(p)
       \/ PushLock(p)
       \/ PushAppend(p)
  \/ PopLock
  \/ PopRead
  \/ PopClear
  \/ PopReturn

SpecQueue == Init /\ [][NextQueue]_vars

\* ------------------------------- app.py: the event timer over a quiet user
\* what pop_events() returns in one timer tick: nothing, or one event
HeartbeatBatches ==
  {<<>>, <<"system_idle_threshold">>, <<"active_window_title_changed">>,
   <<"active_window_changed">>}

HeartbeatTickSeconds == 60

\* _consume_sensor_events with a brain: the events popped are added, and a
\* True from add_event has the buffer consumed and _trigger_ai_update called
\* (recorded in ops; what the call does with the gate is TriggerAiUpdate).
\* Events arrive until MAX_INTERVAL_SECONDS before the end of the observed
\* time; from then on the user and the sensor are quiet.
ConsumeHeartbeat ==
  /\ brain # 0
  /\ \E batch \in HeartbeatBatches :
       LET r == AddAll(accumulator, batch, now, FALSE) IN
       /\ batch # <<>> =>
            /\ now + MAX_INTERVAL_SECONDS <= MaxHeartbeatTime
            /\ Len(accumulator.events) + Len(batch) <= MaxBuf
       /\ IF r.should
          THEN LET c == Consume(r.acc, now) IN
               /\ accumulator' = c.acc
               /\ summary' = c.summary
               /\ add_ret' = TRUE
               /\ ops' = "dispatch"
          ELSE /\ accumulator' = r.acc
               /\ summary' = NoSummary
               /\ add_ret' = FALSE
               /\ ops' = "accumulate"
  /\ UNCHANGED <<sensorVars, inputVars, auxVars>>
  /\ UNCHANGED <<now, appVars>>

\* time passes
HeartbeatTick ==
  /\ now + HeartbeatTickSeconds <= MaxHeartbeatTime
  /\ now' = now + HeartbeatTickSeconds
  /\ UNCHANGED <<sensorVars, inputVars, auxVars>>
  /\ UNCHANGED <<accVars, appVars>>

NextHeartbeat ==
  \/ ConsumeHeartbeat
  \/ HeartbeatTick

\* the rumps timer keeps firing every 0.5 s and the clock keeps running;
\* nothing makes the sensor push an event
FairSpecHeartbeat ==
  /\ Init /\ [][NextHeartbeat]_vars
  /\ WF_vars(ConsumeHeartbeat)
  /\ WF_vars(HeartbeatTick)

\* ----------------------------- sensor.py: the idle check, any threshold
\* the idle_threshold_seconds handed to the constructor
IdleThresholdArgs == {0, 1, 2, 10}

\* what _get_idle_seconds returns at a poll, in whole seconds
IdlePollReadings == {0, 1, 2, 10}

\* Event 3 of _monitor_loop for a sensor of the given threshold
IdleStepAt(threshold, triggered, idle) ==
  IF idle >= threshold /\ ~triggered
  THEN [fire |-> TRUE, triggered |-> TRUE]
  ELSE IF idle < IdleRearmBelow
       THEN [fire |-> FALSE, triggered |-> FALSE]
       ELSE [fire |-> FALSE, triggered |-> triggered]

\* SystemSensor(idle_threshold_seconds=arg)
IdleConstruct ==
  /\ idle_sensor = NotConstructed
  /\ \E arg \in IdleThresholdArgs :
       idle_sensor' = [NotConstructed EXCEPT
                         !.idle_threshold_seconds = Max(1, arg)]
  /\ UNCHANGED <<now, accVars, appVars, sensorVars, inputVars, queueVars,
                 indexVars>>

\* one poll of _monitor_loop, Event 3 alone; run_events counts the
\* system_idle_threshold events pushed since the last poll that read an
\* idle time below the threshold
IdlePoll ==
  /\ idle_sensor.idle_threshold_seconds > 0
  /\ idle_sensor.polls < MaxPolls
  /\ \E idle_seconds \in IdlePollReadings :
       LET r == IdleStepAt(idle_sensor.idle_threshold_seconds,
                           idle_sensor.idle_triggered, idle_seconds) IN
       idle_sensor' =
         [idle_sensor EXCEPT
            !.idle_triggered = r.triggered,
            !.polls = @ + 1,
            !.run_events =
              IF idle_seconds < idle_sensor.idle_threshold_seconds THEN 0
              ELSE IF r.fire THEN @ + 1 ELSE @]
  /\ UNCHANGED <<now, accVars, appVars, sensorVars, inputVars, queueVars,
                 indexVars>>

NextIdle ==
  \/ IdleConstruct
  \/ IdlePoll

SpecIdle == Init /\ [][NextIdle]_vars

\* ------------------------------ backend/vector_search.py: the index
\* user ids, strings as sequences of characters: "a", "a_b" and "b"
UserIds == {<<"a">>, <<"a", "_", "b">>, <<"b">>}

\* memory ids: store_memory makes "mem_" + 12 hex digits
MemoryIds == {<<"m", "1">>, <<"m", "2">>}

TopKs == {1, 2}

\* f"{user_id}_{datapoint_id}" and f"{user_id}_"
PrefixOf(user_id) == user_id \o <<"_">>
PrefixedId(user_id, datapoint_id) == PrefixOf(user_id) \o datapoint_id

\* str.startswith
StartsWith(text, prefix) ==
  Len(text) >= Len(prefix) /\ SubSeq(text, 1, Len(prefix)) = prefix

\* neighbor.id[len(prefix):]
StripPrefix(text, prefix) == SubSeq(text, Len(prefix) + 1, Len(text))

\* the loop of search over the neighbours found: a neighbour whose id starts
\* with the prefix is appended with the prefix stripped, until top_k results
RECURSIVE FilterNeighbors(_, _, _, _)
FilterNeighbors(neighbors, prefix, top_k, results) ==
  IF neighbors = <<>> THEN results
  ELSE IF StartsWith(Head(neighbors).id, prefix)
       THEN LET r == Append(results,
                            [id |-> StripPrefix(Head(neighbors).id, prefix),
                             datapoint |-> Head(neighbors)]) IN
            IF Len(r) >= top_k THEN r
            ELSE FilterNeighbors(Tail(neighbors), prefix, top_k, r)
       ELSE FilterNeighbors(Tail(neighbors), prefix, top_k, results)

\* find_neighbors: num_neighbors datapoints of the index, nearest first; the
\* distances depend on the embeddings, so in any order
Neighbors(num_neighbors) ==
  LET k == IF num_neighbors < Len(index) THEN num_neighbors ELSE Len(index) IN
  {[n \in 1..k |-> index[order[n]]] :
     order \in {o \in [1..k -> 1..Len(index)] :
                  \A m, n \in 1..k : m # n => o[m] # o[n]}}

\* upsert(datapoint_id, embedding, user_id): the datapoint of that id is
\* replaced or added; user_id and memory_id keep the arguments of the call
IndexUpsert ==
  /\ \E user_id \in UserIds, datapoint_id \in MemoryIds :
       LET dp == [id |-> PrefixedId(user_id, datapoint_id),
                  user_id |-> user_id, memory_id |-> datapoint_id] IN
       IF \E n \in 1..Len(index) : index[n].id = dp.id
       THEN index' = [n \in 1..Len(index) |->
                        IF index[n].id = dp.id THEN dp ELSE index[n]]
       ELSE /\ Len(index) < MaxIndex
            /\ index' = Append(index, dp)
  /\ UNCHANGED <<now, accVars, appVars, sensorVars, inputVars, queueVars,
                 idleVars, search>>

\* search(query_embedding, top_k, user_id)
IndexSearch ==
  /\ \E user_id \in UserIds, top_k \in TopKs :
       \E neighbors \in Neighbors(top_k * 5) :
         search' = [user_id |-> user_id, top_k |-> top_k,
                    results |-> FilterNeighbors(neighbors, PrefixOf(user_id),
                                                top_k, <<>>)]
  /\ UNCHANGED <<now, accVars, appVars, sensorVars, inputVars, queueVars,
                 idleVars, index>>

NextIndex ==
  \/ IndexUpsert
  \/ IndexSearch

SpecIndex == Init /\ [][NextIndex]_vars

\* ------------------------------------ app.py: one tick of the event timer
\* what pop_events() returns in one timer tick: batches in which no add
\* returns True, the last one does, or one before the last does
TickBatches ==
  {<<"active_window_title_changed">>, <<"system_idle_threshold">>,
   <<"frustration_pattern", "high_typing_burst">>,
   <<"active_window_changed", "high_typing_burst">>,
   <<"system_idle_threshold", "window_dwell_timeout",
     "active_window_title_changed">>}

\* _consume_sensor_events with a brain, for one popped batch; the call of
\* _trigger_ai_update is recorded in ops
ConsumeTick ==
  /\ brain # 0
  /\ \E batch \in TickBatches :
       LET r == AddAll(accumulator, batch, now, FALSE) IN
       /\ Len(accumulator.events) + Len(batch) <= MaxBuf
       /\ IF r.should
          THEN LET c == Consume(r.acc, now) IN
               /\ accumulator' = c.acc
               /\ summary' = c.summary
               /\ add_ret' = TRUE
               /\ ops' = "dispatch"
          ELSE /\ accumulator' = r.acc
               /\ summary' = NoSummary
               /\ add_ret' = FALSE
               /\ ops' = "accumulate"
  /\ UNCHANGED <<sensorVars, inputVars, auxVars>>
  /\ UNCHANGED <<now, appVars>>

NextTick ==
  \/ ConsumeTick
  \/ HeartbeatTick

SpecTick == Init /\ [][NextTick]_vars

\* ------------------------------------- brain.py: the cooldown fallback
\* moods and accumulated contexts handed to react / pet_react
PriorMoods == {"chill", "judgy"}
FallbackContexts ==
  {NoCtx} \cup
  {[given |-> TRUE, summary |-> [NoSummary EXCEPT !.dominant_pattern = d]] :
     d \in {"active_window_changed", "rapid_app_switching", "sigh_detected"}}

\* two pipelines call the brain at a time, one after a trigger and one
\* after a pet
FallbackCallers == {1, 2}

\* waits a rate-limit error asks for
FallbackWaits == {ExtractRetryDelaySeconds(e.text) : e \in {ErrDelay3, ErrPlease12}}

\* _record_quota_backoff after a rate-limit error
FallbackBackoff ==
  /\ brain # 0
  /\ \E wait \in FallbackWaits :
       quota_retry_after_ts' =
         [quota_retry_after_ts EXCEPT
            ![brain] = BackoffDeadline(@, now, wait)]
  /\ quota_retry_after_ts'[brain] # quota_retry_after_ts[brain]
  /\ UNCHANGED <<sensorVars, inputVars, auxVars, update>>
  /\ UNCHANGED <<now, accVars, brain, nBrains, update_lock, threads,
                 nThreads, pending_update, current_mood, startup_done, nTrig,
                 heldAtArrival, nPets, recorded>>

\* react / pet_react: if self._in_quota_cooldown()
FallbackCheck(i) ==
  /\ brain # 0
  /\ threads[i].kind = "none"
  /\ InQuotaCooldown(quota_retry_after_ts[brain], now)
  /\ \E kind \in Kinds : \E mood \in PriorMoods : \E ctx \in FallbackContexts :
       /\ kind = "pet" => ctx = NoCtx
       /\ SetThread(i, [IdleThread EXCEPT !.kind = kind, !.pc = "fallback",
                                          !.b = brain, !.mood = mood,
                                          !.ctx = ctx])
  /\ UNCHANGED <<sensorVars, inputVars, auxVars, update>>
  /\ UNCHANGED <<now, accVars, brain, nBrains, quota_retry_after_ts, update_lock,
                 nThreads, pending_update, current_mood, startup_done, nTrig,
                 heldAtArrival, nPets, recorded>>

\* return self._quota_fallback(current_mood, accumulated_context): the
\* deadline and the clock are read again
FallbackCompute(i) ==
  LET th == threads[i] IN
  /\ th.pc = "fallback"
  /\ SetThread(i, [th EXCEPT !.pc = "returned",
                             !.result = QuotaFallback(quota_retry_after_ts[th.b],
                                                      now, th.mood, th.ctx)])
  /\ UNCHANGED <<sensorVars, inputVars, auxVars, update>>
  /\ UNCHANGED <<now, accVars, brain, nBrains, quota_retry_after_ts, update_lock,
                 nThreads, pending_update, current_mood, startup_done, nTrig,
                 heldAtArrival, nPets, recorded>>

\* the caller is done with the result
FallbackForget(i) ==
  /\ threads[i].pc = "returned"
  /\ SetThread(i, IdleThread)
  /\ UNCHANGED <<sensorVars, inputVars, auxVars, update>>
  /\ UNCHANGED <<now, accVars, brain, nBrains, quota_retry_after_ts, update_lock,
                 nThreads, pending_update, current_mood, startup_done, nTrig,
                 heldAtArrival, nPets, recorded>>

\* time passes
FallbackTick ==
  /\ now + TickSeconds <= MaxFallbackTime
  /\ now' = now + TickSeconds
  /\ UNCHANGED <<sensorVars, inputVars, auxVars>>
  /\ UNCHANGED <<accVars, appVars>>

NextFallback ==
  \/ FallbackBackoff
  \/ \E i \in FallbackCallers :
       \/ FallbackCheck(i)
       \/ FallbackCompute(i)
       \/ FallbackForget(i)
  \/ FallbackTick

SpecFallback == Init /\ [][NextFallback]_vars

\* ----------------------------------------------------------- sensor.py
\* _push_event: of the queued event, the reason
Event(reason, app, title) == [reason |-> reason]

\* the idle check that re-arms as soon as idle is below the threshold
IdleStepRearmEarly(triggered, idle) ==
  IF idle >= idle_threshold_seconds /\ ~triggered
  THEN [fire |-> TRUE, triggered |-> TRUE]
  ELSE IF idle < idle_threshold_seconds
       THEN [fire |-> FALSE, triggered |-> FALSE]
       ELSE [fire |-> FALSE, triggered |-> triggered]

\* Event 3 of _monitor_loop: whether to fire, and the flag afterwards
IdleStep(triggered, idle) ==
  IF idle >= idle_threshold_seconds /\ ~triggered
  THEN [fire |-> TRUE, triggered |-> TRUE]
  ELSE IF idle < IdleRearmBelow
       THEN [fire |-> FALSE, triggered |-> FALSE]
       ELSE [fire |-> FALSE, triggered |-> triggered]

\* the dwell check that ignores the fired-set
DwellDueAnyway(key, dwell, fired) ==
  key # NoKey /\ dwell >= dwell_seconds_threshold

\* Event 2 of _monitor_loop: the condition of the dwell event
DwellDue(key, dwell, fired) ==
  key # NoKey /\ dwell >= dwell_seconds_threshold /\ key \notin fired

\* _check_behavior_patterns: the events pushed for the monitors' stats
BehaviorEvents(st, app, title) ==
  (IF st.backspace_ratio > 30 /\ st.clicks_per_min > 30
   THEN <<Event("frustration_pattern", app, title)>> ELSE <<>>)
  \o (IF st.sighs > 0 THEN <<Event("sigh_detected", app, title)>> ELSE <<>>)
  \o (IF st.typing_speed > 100
      THEN <<Event("high_typing_burst", app, title)>> ELSE <<>>)

\* the user switches app: the first switch opens the count, a second one
\* closes it
Switched(fs) ==
  IF fs.switches = 0 THEN [switches |-> 1, events |-> 0]
  ELSE [switches |-> 2, events |-> 0]

\* an active_window_changed event is pushed
Announced(fs) ==
  IF fs.switches = 1 THEN [fs EXCEPT !.events = IF @ < 2 THEN @ + 1 ELSE @] ELSE fs

\* the user switches to another application
SwitchApp ==
  /\ \E w \in Windows :
       /\ w[1] # front_app
       /\ front_app' = w[1]
       /\ front_title' = w[2]
  /\ activation_pending' = TRUE
  /\ first_switch' = Switched(first_switch)
  /\ UNCHANGED <<now, accVars, appVars, inputVars, auxVars, ctxVars, dwell_fired_for_key,
                 idle_triggered, last_behavior_check, sensor_events, mon, cb,
                 dwell_emitted>>

\* the front window's title changes inside the same application
ChangeTitle ==
  /\ \E w \in Windows :
       /\ w[1] = front_app /\ w[2] # front_title
       /\ front_title' = w[2]
  /\ UNCHANGED <<now, accVars, appVars, inputVars, auxVars, front_app, activation_pending, ctxVars,
                 dwell_fired_for_key, idle_triggered, last_behavior_check,
                 sensor_events, mon, cb, dwell_emitted, first_switch>>

\* _on_workspace_activate: context = self.collect_trigger_context();
\* now = time.time(); if context["context_key"] != self._last_context_key:
CbCheck ==
  /\ cb.pc = "idle"
  /\ activation_pending
  /\ activation_pending' = FALSE
  /\ cb' = IF ContextKey(front_app, front_title) # last_context_key
           THEN [pc |-> "set", app |-> front_app, title |-> front_title, t |-> now]
           ELSE CbIdleLocals
  /\ UNCHANGED <<now, accVars, appVars, inputVars, auxVars, front_app, front_title, ctxVars,
                 dwell_fired_for_key, idle_triggered, last_behavior_check,
                 sensor_events, mon, dwell_emitted, first_switch>>

\* the four stores and _push_event("active_window_changed")
CbSet ==
  /\ cb.pc = "set"
  /\ Len(sensor_events) < MaxQueue
  /\ last_context_key' = ContextKey(cb.app, cb.title)
  /\ last_app_name' = cb.app
  /\ last_title' = cb.title
  /\ context_started_at' = cb.t
  /\ sensor_events' =
       Append(sensor_events, Event("active_window_changed", cb.app, cb.title))
  /\ cb' = CbIdleLocals
  /\ dwell_emitted' = [k \in Keys |-> 0]
  /\ first_switch' = Announced(first_switch)
  /\ UNCHANGED <<now, accVars, appVars, inputVars, auxVars, worldVars, dwell_fired_for_key,
                 idle_triggered, last_behavior_check, mon>>

\* _monitor_loop: context = self.collect_trigger_context(); now = time.time()
MonCollect ==
  /\ mon.pc = "sleep"
  /\ mon' = [MonIdleLocals EXCEPT !.pc = "app", !.app = front_app,
                                   !.title = front_title, !.t = now]
  /\ UNCHANGED <<now, accVars, appVars, inputVars, auxVars, worldVars, ctxVars, dwell_fired_for_key,
                 idle_triggered, last_behavior_check, sensor_events, cb,
                 dwell_emitted, first_switch>>

\* safety net: the condition of the app-switch block
MonApp ==
  /\ mon.pc = "app"
  /\ mon' = [mon EXCEPT !.pc =
               IF last_app_name # "" /\ mon.app # "" /\ mon.app # last_app_name
               THEN "app_set" ELSE "title"]
  /\ UNCHANGED <<now, accVars, appVars, inputVars, auxVars, worldVars, ctxVars, dwell_fired_for_key,
                 idle_triggered, last_behavior_check, sensor_events, cb,
                 dwell_emitted, first_switch>>

\* the four stores and _push_event("active_window_changed")
MonAppSet ==
  /\ mon.pc = "app_set"
  /\ Len(sensor_events) < MaxQueue
  /\ last_context_key' = ContextKey(mon.app, mon.title)
  /\ last_app_name' = mon.app
  /\ last_title' = mon.title
  /\ context_started_at' = mon.t
  /\ sensor_events' =
       Append(sensor_events, Event("active_window_changed", mon.app, mon.title))
  /\ mon' = [mon EXCEPT !.pc = "title"]
  /\ dwell_emitted' = [k \in Keys |-> 0]
  /\ first_switch' = Announced(first_switch)
  /\ UNCHANGED <<now, accVars, appVars, inputVars, auxVars, worldVars, dwell_fired_for_key,
                 idle_triggered, last_behavior_check, cb>>

\* Event 1 (supplement): title changed inside the same app
MonTitle ==
  /\ mon.pc = "title"
  /\ IF /\ last_context_key # NoKey
        /\ mon.app = last_app_name
        /\ mon.title # ""
        /\ mon.title # last_title
     THEN /\ Len(sensor_events) < MaxQueue
          /\ last_title' = mon.title
          /\ last_context_key' = ContextKey(mon.app, mon.title)
          /\ context_started_at' = mon.t
          /\ sensor_events' =
               Append(sensor_events,
                      Event("active_window_title_changed", mon.app, mon.title))
          /\ dwell_emitted' = [k \in Keys |-> 0]
     ELSE UNCHANGED <<last_title, last_context_key, context_started_at,
                      sensor_events, dwell_emitted>>
  /\ mon' = [mon EXCEPT !.pc = "init"]
  /\ UNCHANGED <<now, accVars, appVars, inputVars, auxVars, worldVars, last_app_name,
                 dwell_fired_for_key, idle_triggered, last_behavior_check, cb, first_switch>>

\* if not self._last_context_key: the first observation
MonInit ==
  /\ mon.pc = "init"
  /\ IF last_context_key = NoKey
     THEN /\ last_context_key' = ContextKey(mon.app, mon.title)
          /\ last_app_name' = mon.app
          /\ last_title' = mon.title
          /\ context_started_at' = mon.t
     ELSE UNCHANGED ctxVars
  /\ mon' = [mon EXCEPT !.pc = "dwell"]
  /\ UNCHANGED <<now, accVars, appVars, inputVars, auxVars, worldVars, dwell_fired_for_key,
                 idle_triggered, last_behavior_check, sensor_events, cb,
                 dwell_emitted, first_switch>>

\* Event 2: dwell timeout
MonDwell ==
  /\ mon.pc = "dwell"
  /\ LET key == ContextKey(mon.app, mon.title)
         dwell_seconds == mon.t - context_started_at
     IN IF DwellDue(key, dwell_seconds, dwell_fired_for_key)
        THEN /\ Len(sensor_events) < MaxQueue
             /\ dwell_fired_for_key' = dwell_fired_for_key \cup {key}
             /\ sensor_events' =
                  Append(sensor_events,
                         Event("window_dwell_timeout", mon.app, mon.title))
             /\ dwell_emitted' = [dwell_emitted EXCEPT ![key] = @ + 1]
        ELSE UNCHANGED <<dwell_fired_for_key, sensor_events, dwell_emitted>>
  /\ mon' = [mon EXCEPT !.pc = "idle"]
  /\ UNCHANGED <<now, accVars, appVars, inputVars, auxVars, worldVars, ctxVars, idle_triggered,
                 last_behavior_check, cb, first_switch>>

\* Event 3: idle >= threshold (fire once per idle period); idle_seconds is
\* the reading the collected context carries, which nothing looks at before
MonIdle ==
  /\ mon.pc = "idle"
  /\ \E idle_seconds \in IdleReadings :
     LET r == IdleStep(idle_triggered, idle_seconds) IN
       /\ idle_triggered' = r.triggered
       /\ IF r.fire
          THEN /\ Len(sensor_events) < MaxQueue
               /\ sensor_events' =
                    Append(sensor_events,
                           Event("system_idle_threshold", mon.app, mon.title))
          ELSE UNCHANGED sensor_events
       /\ mon' = [mon EXCEPT !.pc = "behavior", !.idle = idle_seconds]
  /\ UNCHANGED <<now, accVars, appVars, inputVars, auxVars, worldVars, ctxVars, dwell_fired_for_key,
                 last_behavior_check, cb, dwell_emitted, first_switch>>

\* behavioural events, every 10 seconds; then time.sleep(1.0)
MonBehavior ==
  /\ mon.pc = "behavior"
  /\ IF mon.t - last_behavior_check >= BehaviorCheckSeconds
     THEN /\ last_behavior_check' = mon.t
          /\ \E st \in BehaviorStats :
               LET evs == BehaviorEvents(st, mon.app, mon.title) IN
               /\ Len(sensor_events) + Len(evs) <= MaxQueue
               /\ sensor_events' = sensor_events \o evs
     ELSE UNCHANGED <<last_behavior_check, sensor_events>>
  /\ mon' = MonIdleLocals
  /\ UNCHANGED <<now, accVars, appVars, inputVars, auxVars, worldVars, ctxVars, dwell_fired_for_key,
                 idle_triggered, cb, dwell_emitted, first_switch>>

\* pop_events: the timer thread takes the whole queue
PopEvents ==
  /\ sensor_events # <<>>
  /\ sensor_events' = <<>>
  /\ UNCHANGED <<now, accVars, appVars, inputVars, auxVars, worldVars, ctxVars, dwell_fired_for_key,
                 idle_triggered, last_behavior_check, mon, cb, dwell_emitted, first_switch>>

\* time passes: a clock step is long against one loop iteration or one
\* callback, so it falls between them
SensorAdvance ==
  /\ mon.pc = "sleep" /\ cb.pc = "idle"
  /\ now + SensorTickSeconds <= MaxSensorTime
  /\ now' = now + SensorTickSeconds
  /\ UNCHANGED <<accVars, appVars, inputVars, auxVars, sensorVars>>

MonitorStep ==
  \/ MonCollect
  \/ MonApp
  \/ MonAppSet
  \/ MonTitle
  \/ MonInit
  \/ MonDwell
  \/ MonIdle
  \/ MonBehavior

CallbackStep ==
  \/ CbCheck
  \/ CbSet

NextSensor ==
  \/ SwitchApp
  \/ ChangeTitle
  \/ MonitorStep
  \/ CallbackStep
  \/ PopEvents
  \/ SensorAdvance

SpecSensor == Init /\ [][NextSensor]_vars

\* ------------------------------------------- sensor.py: input monitors
RECURSIVE CountStamps(_, _)
CountStamps(stamps, times) ==
  IF times = {} THEN 0
  ELSE LET u == CHOOSE x \in times : TRUE
       IN stamps[u] + CountStamps(stamps, times \ {u})

\* [t for t in stamps if now - t <= 60]
Last60(stamps, t) == [u \in InputTimes |-> IF t - u <= 60 THEN stamps[u] ELSE 0]

\* round(self._backspaces / max(1, self._total_keys), 2), in hundredths
BackspaceRatio(kb) == (200 * kb.backspaces + Max(1, kb.total_keys))
                        \div (2 * Max(1, kb.total_keys))

\* reset_counters that resets nothing
KeyboardKeepCounters(kb) == kb

\* _KeyboardMonitor.reset_counters
KeyboardResetCounters(kb) == [kb EXCEPT !.backspaces = 0, !.total_keys = 0]

\* a listener that calls back although it was never started
DeliversAnyway(listener) == TRUE

\* the callback of a pynput listener runs only once the listener was started
Delivers(listener) == listener

\* the sigh test that counts on every elevated chunk from the second on
SighStepRepeated(elevated_chunks, ratio) ==
  IF 20 <= ratio /\ ratio <= 80
  THEN [elevated_chunks |-> elevated_chunks + 1,
        sigh |-> elevated_chunks + 1 >= 2]
  ELSE [elevated_chunks |-> 0, sigh |-> FALSE]

\* _AudioMonitor._run, sigh detection: the run length after the chunk and
\* whether the chunk counts a sigh
SighStep(elevated_chunks, ratio) ==
  IF 20 <= ratio /\ ratio <= 80
  THEN [elevated_chunks |-> elevated_chunks + 1,
        sigh |-> elevated_chunks + 1 = 2]
  ELSE [elevated_chunks |-> 0, sigh |-> FALSE]

\* start_watchers: whether each producer can initialize is the environment's
\* choice; every start() catches its exception
StartWatchers ==
  /\ ~running
  /\ running' = TRUE
  /\ \E can \in [Producers -> BOOLEAN] :
       /\ listeners' = [p \in {"mouse", "keyboard"} |-> can[p]]
       /\ audio' = [audio EXCEPT !.pc = IF can["audio"] THEN "calibrate" ELSE "off"]
  /\ monitor_thread' = TRUE
  /\ UNCHANGED <<now, accVars, appVars, sensorVars, auxVars, clicks, keyboard, beh,
                 behavior_pushed>>

\* _MouseMonitor._on_click with pressed
Click ==
  /\ Delivers(listeners["mouse"])
  /\ clicks[now] = 0
  /\ \E n \in ClickBursts : clicks' = [clicks EXCEPT ![now] = n]
  /\ UNCHANGED <<now, accVars, appVars, sensorVars, auxVars, running, listeners,
                 monitor_thread, keyboard, audio, beh, behavior_pushed>>

\* _KeyboardMonitor._on_press
KeyPress ==
  /\ Delivers(listeners["keyboard"])
  /\ keyboard.keystrokes[now] = 0
  /\ \E b \in KeyBursts :
       keyboard' = [keystrokes |-> [keyboard.keystrokes EXCEPT ![now] = b.keys],
                    backspaces |-> keyboard.backspaces + b.backspaces,
                    total_keys |-> keyboard.total_keys + b.keys]
  /\ UNCHANGED <<now, accVars, appVars, sensorVars, auxVars, running, listeners,
                 monitor_thread, clicks, audio, beh, behavior_pushed>>

\* _AudioMonitor._run: 3 seconds of ambient noise; the thread ends when
\* the recording raises
AudioCalibrate ==
  /\ audio.pc = "calibrate"
  /\ \E recorded_ok \in BOOLEAN :
       audio' = IF recorded_ok
                THEN [audio EXCEPT !.pc = "loop", !.calibrated = TRUE]
                ELSE [audio EXCEPT !.pc = "off"]
  /\ UNCHANGED <<now, accVars, appVars, sensorVars, auxVars, running, listeners,
                 monitor_thread, clicks, keyboard, beh, behavior_pushed>>

\* _AudioMonitor._run: one chunk of the monitoring loop; a recording that
\* raises is slept over and leaves the counters as they are
AudioChunk ==
  /\ audio.pc = "loop"
  /\ \E ratio \in ChunkRatios :
       IF ratio < 0
       THEN audio' = audio
       ELSE LET r == SighStep(audio.elevated_chunks, ratio) IN
            /\ r.elevated_chunks <= MaxRun
            /\ r.sigh => audio.sighs < MaxSighs
            /\ audio' = [audio EXCEPT !.elevated_chunks = r.elevated_chunks,
                                      !.sighs = IF r.sigh THEN @ + 1 ELSE @]
  /\ UNCHANGED <<now, accVars, appVars, sensorVars, auxVars, running, listeners,
                 monitor_thread, clicks, keyboard, beh, behavior_pushed>>

\* _check_behavior_patterns, called by the monitor loop: the three
\* get_stats() calls, which also drop the stamps older than 60 seconds
BehaviorRead ==
  /\ monitor_thread
  /\ beh.pc = "idle"
  /\ clicks' = Last60(clicks, now)
  /\ keyboard' = [keyboard EXCEPT !.keystrokes = Last60(@, now)]
  /\ beh' = [pc |-> "emit",
             clicks_per_min |-> CountStamps(Last60(clicks, now), InputTimes),
             typing_speed |-> CountStamps(Last60(keyboard.keystrokes, now),
                                          InputTimes),
             backspace_ratio |-> BackspaceRatio(keyboard),
             sighs |-> audio.sighs]
  /\ UNCHANGED <<now, accVars, appVars, sensorVars, auxVars, running, listeners,
                 monitor_thread, audio, behavior_pushed>>

\* _check_behavior_patterns: the pushes and the resets
BehaviorEmit ==
  /\ beh.pc = "emit"
  /\ LET evs == BehaviorEvents(beh, "", "") IN
       behavior_pushed' = [n \in 1..Len(evs) |-> evs[n].reason]
  /\ keyboard' = IF beh.backspace_ratio > 30 /\ beh.clicks_per_min > 30
                 THEN KeyboardResetCounters(keyboard) ELSE keyboard
  /\ audio' = IF beh.sighs > 0 THEN [audio EXCEPT !.sighs = 0] ELSE audio
  /\ beh' = BehIdle
  /\ UNCHANGED <<now, accVars, appVars, sensorVars, auxVars, running, listeners,
                 monitor_thread, clicks>>

\* time passes
InputAdvance ==
  /\ now + InputTickSeconds <= MaxInputTime
  /\ now' = now + InputTickSeconds
  /\ UNCHANGED <<accVars, appVars, sensorVars, inputVars, auxVars>>

NextInput ==
  \/ StartWatchers
  \/ Click
  \/ KeyPress
  \/ AudioCalibrate
  \/ AudioChunk
  \/ BehaviorRead
  \/ BehaviorEmit
  \/ InputAdvance

SpecInput == Init /\ [][NextInput]_vars

\* ---------------------------------------------------------- properties
\* background pipelines between gate acquisition and gate release
Pipelines == {i \in ThreadIds : threads[i].kind = "bg" /\ threads[i].pc # "done"}

\* pipeline threads started so far
Started == {i \in ThreadIds : threads[i].kind = "bg"}

\* requests that were sent and have not returned yet
InFlight == {i \in ThreadIds : threads[i].pc = "gen"}

\* thread i enters react / pet_react in this step
Entry(i) == threads[i].pc = "react" /\ threads'[i].pc # "react"

\* thread i enters and returns the cooldown fallback without a request
Skips(i) ==
  /\ threads'[i].pc = "publish"
  /\ threads'[i].result.kind = "fallback"
  /\ threads'[i].attempt = 0

\* thread i sends a request in this step: the first one, or react's retry
Sends(i) ==
  \/ threads[i].pc = "call" /\ threads'[i].pc = "gen"
  \/ threads[i].pc = "gen" /\ threads'[i].pc = "gen"
     /\ threads'[i].attempt # threads[i].attempt

\* the call of thread i returns in this step
Returns(i) == threads[i].pc \in {"gen", "recheck"} /\ threads'[i].pc = "publish"

RECURSIVE SumSignificance(_)
SumSignificance(events) ==
  IF events = <<>> THEN 0
  ELSE Significance(Head(events)) + SumSignificance(Tail(events))

\* C1: under any interleaving of the triggers (accumulator tick, startup,
\* API key set) at most one background pipeline is between gate acquisition
\* and gate release.
C1_SingleFlight == Cardinality(Pipelines) <= 1

\* a pipeline is running and a second trigger has arrived meanwhile
C1_Witness == Pipelines # {} /\ heldAtArrival # {}

\* C2: a trigger that arrives while the gate is held is dropped, not queued:
\* no pipeline ever belongs to such a trigger, now or after the holder
\* finished, so the pipelines started never outnumber the admitted triggers.
C2_DroppedNotQueued ==
  /\ \A i \in Started : threads[i].trig \notin heldAtArrival
  /\ Cardinality(Started) + Cardinality(heldAtArrival) <= nTrig

\* the second of two triggers found the gate held; the first pipeline has
\* finished, the gate is free and no second pipeline exists
C2_Witness ==
  /\ heldAtArrival = {2}
  /\ ~update_lock
  /\ Cardinality(Started) = 1
  /\ \A i \in Started : threads[i].pc = "done" /\ threads[i].trig = 1

\* C3: the gate is released in all cases: whenever the gate is held there is
\* a pipeline that will release it (a held gate without one stays held for
\* good, since only a pipeline's finally clause releases it).
C3_GateReleased == update_lock => Pipelines # {}

\* C4: single-flight covers manual triggers: at most one reasoning-service
\* request is in flight at any time across react and pet_react.
C4_OneCallInFlight == Cardinality(InFlight) <= 1

\* C5: when a call returns after one of its requests raised a rate-limit
\* error with hint h at time t, the deadline is at least t + max(h, 5); a
\* call entered before the deadline skips the network; a call entered at or
\* after the deadline goes to the network.
C5_CooldownAfterRateLimit ==
  [][\A i \in ThreadIds :
       /\ (Returns(i) /\ threads[i].owes > 0
             => quota_retry_after_ts'[threads[i].b] >= threads[i].owes)
       /\ (Entry(i) /\ now < quota_retry_after_ts[brain] => Skips(i))
       /\ (Entry(i) /\ now >= quota_retry_after_ts[brain]
             => threads'[i].pc = "call")]_vars

\* C6: no request is sent while now < cooldown deadline, for the first
\* request of react and pet_react and for react's text-only retry.
C6_NoAttemptInCooldown ==
  [][\A i \in ThreadIds :
       Sends(i) => ~InQuotaCooldown(quota_retry_after_ts[threads[i].b], now)]_vars

\* C7: the deadline the next call consults (that of self.brain) never
\* decreases, whatever happens: recordings from either thread, a new API key.
C7_DeadlineMonotone ==
  [][brain # 0 /\ brain' # 0
       => quota_retry_after_ts'[brain'] >= quota_retry_after_ts[brain]]_vars

\* C8: the wait extracted from a rate-limit text is max(5, h) for a hint h
\* and 60 without one, and a recording makes the deadline
\* max(previous deadline, now + wait): it never shortens a cooldown in force.
C8_WaitAndExtend ==
  [][/\ \A e \in NetErrors \cup {ErrNoHint} :
          ExtractRetryDelaySeconds(e.text) =
            IF e.hint >= 0 THEN Max(MinRetryDelay, e.hint) ELSE DefaultRetryDelay
     /\ \A i \in ThreadIds :
          threads[i].pc = "rec_write" /\ threads'[i].pc = "recheck"
            => quota_retry_after_ts'[threads[i].b] =
                 Max(quota_retry_after_ts[threads[i].b], threads[i].val)]_vars

\* C9: the cooldown is shared by all call sites: a call entered before a
\* deadline that a call of the other kind recorded skips the network.
C9_SharedCooldown ==
  [][\A i \in ThreadIds :
       Entry(i) /\ (\E k \in Kinds \ {threads[i].kind} : now < recorded[k])
         => Skips(i)]_vars

\* C10: consume().total_score is the sum of the significance weights of the
\* buffered events, a synthesized rapid_app_switching event counting 3.0 and
\* an unrecognized reason 0.5.
C10_TotalScore ==
  [][AccConsume => summary'.total_score = SumSignificance(accumulator.events)]_vars

\* a summary over an unrecognized reason, three app switches and the
\* rapid_app_switching event they synthesized
C10_Witness ==
  /\ summary.event_count = 5
  /\ summary.total_score = 1850
  /\ summary.dominant_pattern = "active_window_changed"

\* the last call made on the accumulator directly
LastOp == ops

\* C11: consume() always leaves score 0 and the buffer empty; no other
\* operation takes the score back to 0; a consume() right after a consume()
\* returns event_count 0, total_score 0 and dominant_pattern none.
C11_ConsumeResets ==
  [][/\ (AccConsume => accumulator'.score = 0 /\ accumulator'.events = <<>>)
     /\ (accumulator.score # 0 /\ accumulator'.score = 0
           => ops' # ops /\ ops' = "consume")
     /\ (AccConsume /\ LastOp = "consume"
           => /\ summary'.event_count = 0
              /\ summary'.total_score = 0
              /\ summary'.dominant_pattern = "none")]_vars

\* a consume() that found the buffer empty after app switches were added:
\* only a consume() empties the buffer, so it followed another consume()
C11_Witness ==
  /\ LastOp = "consume"
  /\ summary.event_count = 0
  /\ accumulator.events = <<>>
  /\ accumulator.recent_app_switches # <<>>

\* C12: an add_event call made 120 seconds or more after the last trigger
\* (last consume, or construction) returns true whatever the score is.
C12_Heartbeat ==
  [][AccAddEvent /\ now - accumulator.last_trigger_at >= 120 => add_ret']_vars

\* add_event returned true on the heartbeat alone, the score being below 5.0
C12_Witness ==
  /\ LastOp = "add"
  /\ add_ret
  /\ accumulator.score < 500
  /\ now - accumulator.last_trigger_at >= 120

\* C13, as stated: add returns true if and only if score >= 5.0 and
\* now - last_trigger >= MIN_INTERVAL.
C13_OnlyThreshold ==
  [][AccAddEvent
       => (add_ret' <=> /\ accumulator'.score >= 500
                        /\ now - accumulator.last_trigger_at >= 0)]_vars

\* C13, amended: add returns true if and only if score >= 5.0 and
\* now - last_trigger >= MIN_INTERVAL, or 120 seconds have passed since the
\* last trigger; while fewer than 120 seconds have passed, an ordering whose
\* cumulative weight stays below 5.0 gets false.
C13_ThresholdOrHeartbeat ==
  [][AccAddEvent
       => (add_ret' <=> \/ /\ accumulator'.score >= 500
                           /\ now - accumulator.last_trigger_at >= 0
                        \/ now - accumulator.last_trigger_at >= 120)]_vars

\* add returned true on a score of exactly 5.0 reached by several events
C13_Witness ==
  /\ LastOp = "add"
  /\ add_ret
  /\ accumulator.score = 500
  /\ Len(accumulator.events) >= 2
  /\ now - accumulator.last_trigger_at < 120

\* C14: the third active_window_changed within 30 seconds synthesizes
\* exactly one rapid_app_switching event and clears the sliding window; an
\* add that finds the window empty (the fourth change right afterwards)
\* synthesizes none.
C14_RapidSwitching ==
  [][AccAddEvent
       => LET q == accumulator.recent_app_switches
              near == {i \in 1..Len(q) : now - q[i] <= 30}
              added == accumulator'.events[Len(accumulator.events) + 1]
              synth == CountReason(accumulator'.events, "rapid_app_switching")
                       - CountReason(accumulator.events, "rapid_app_switching")
          IN /\ synth = IF added = "active_window_changed"
                           /\ Cardinality(near) >= 2
                        THEN 1 ELSE 0
             /\ (synth = 1 => accumulator'.recent_app_switches = <<>>)
             /\ (q = <<>> => synth = 0)]_vars

\* three changes, the synthesized event, and a fourth change right after it
\* that synthesized nothing
C14_Witness ==
  /\ accumulator.events =
       <<"active_window_changed", "active_window_changed",
         "active_window_changed", "rapid_app_switching", "active_window_changed">>
  /\ Len(accumulator.recent_app_switches) = 1

\* the events of the queue with this reason
Queued(reason) ==
  {n \in 1..Len(sensor_events) : sensor_events[n].reason = reason}

\* this step appends an event with this reason to the queue
Emits(reason) ==
  /\ Len(sensor_events') = Len(sensor_events) + 1
  /\ sensor_events'[Len(sensor_events')].reason = reason

\* the monitor thread, or the callback, takes this step
MonitorMoves == mon' # mon
CallbackMoves == cb' # cb

\* C15: for one (app, title) context key, window_dwell_timeout is emitted at
\* most once between two detected context changes, however many polls see
\* the same context past the dwell threshold
C15_DwellOnce == \A k \in Keys : dwell_emitted[k] <= 1

\* a later poll sees, past the threshold, the key whose event was emitted
\* at an earlier poll, and has passed the dwell check without emitting
C15_Witness ==
  /\ mon.pc = "idle"
  /\ ContextKey(mon.app, mon.title) \in dwell_fired_for_key
  /\ dwell_emitted[ContextKey(mon.app, mon.title)] = 1
  /\ mon.t - context_started_at >= 2 * dwell_seconds_threshold
  /\ Queued("window_dwell_timeout") = {}

\* C16: the user is back on a key and has stayed past the dwell threshold,
\* and no dwell event was emitted for the key since the last detected
\* context change: the dwell check of this poll emits window_dwell_timeout
C16_DwellAgainAfterReturn ==
  [][(/\ mon.pc = "dwell" /\ mon'.pc = "idle"
      /\ ContextKey(mon.app, mon.title) = last_context_key
      /\ mon.t - context_started_at >= dwell_seconds_threshold
      /\ dwell_emitted[last_context_key] = 0)
     => Emits("window_dwell_timeout")]_vars

\* C17: with the default thresholds, a poll fires system_idle_threshold
\* exactly when it reads idle >= 10 and the flag is down; the flag goes up
\* with the event, comes down on a reading < 2, and stays otherwise
C17_IdleOncePerEpisode ==
  [][(mon.pc = "idle" /\ mon'.pc = "behavior")
     => /\ Emits("system_idle_threshold") <=> (mon'.idle >= 10 /\ ~idle_triggered)
        /\ ~Emits("system_idle_threshold") => sensor_events' = sensor_events
        /\ idle_triggered' =
             IF mon'.idle >= 10 /\ ~idle_triggered THEN TRUE
             ELSE IF mon'.idle < 2 THEN FALSE
             ELSE idle_triggered]_vars

\* a poll after the clock moved read idle >= 10 with the flag down, and
\* the event was emitted and the flag went up
C17_Witness ==
  /\ mon.pc = "behavior"
  /\ mon.idle >= 10
  /\ mon.t > 0
  /\ idle_triggered
  /\ Queued("system_idle_threshold") # {}
\* the context the thread that takes this step has collected
StepContext == IF CallbackMoves THEN cb ELSE mon

\* C18: on both paths, active_window_changed is emitted only when the app
\* differs from the last known app, active_window_title_changed only when
\* the app is the same and the title differs, and either event comes with
\* the dwell start reset and the last known key set to the new key
C18_ChangeEvents ==
  [][/\ Emits("active_window_changed")
          => StepContext.app # last_app_name
     /\ Emits("active_window_title_changed")
          => StepContext.app = last_app_name /\ StepContext.title # last_title
     /\ (Emits("active_window_changed") \/ Emits("active_window_title_changed"))
          => /\ context_started_at' = StepContext.t
             /\ last_context_key' = ContextKey(StepContext.app, StepContext.title)
    ]_vars

\* C19: the last known key, app name and title, the dwell start, the
\* fired-set and the idle flag are written by the monitor thread only
C19_SoleWriter ==
  [][<<ctxVars, dwell_fired_for_key, idle_triggered>>'
       # <<ctxVars, dwell_fired_for_key, idle_triggered>>
     => MonitorMoves /\ ~CallbackMoves]_vars
\* C20: a pipeline whose snapshot failed, the full-screen capture
\* included, goes on to the reasoning service with no snapshot
C20_SnapshotFailureContinues ==
  [][\A i \in ThreadIds :
       (threads[i].pc = "collect" /\ threads'[i].snap = "failed")
         => threads'[i].pc = "react"]_vars
\* the last request of react call i fails with an error that is no
\* rate-limit signal, and the call returns
RetryFailsOther(i) ==
  /\ threads[i].kind = "bg" /\ threads[i].pc = "gen"
  /\ threads'[i].pc = "publish"
  /\ threads'[i].result.kind # "model"

\* a react call sends at most two requests, the second one text-only after
\* the first has failed, and leaves brain.react by returning
AtMostTwoAttempts(i) ==
  /\ Sends(i) => /\ threads'[i].attempt \in {1, 2}
                 /\ threads'[i].attempt > threads[i].attempt
  /\ threads[i].pc \in {"call", "gen", "rec_write", "recheck"}
       => threads'[i].pc \in {"call", "gen", "rec_write", "recheck", "publish"}

C22_RateLimitForwarded ==
  [][\A i \in ThreadIds :
       (threads[i].pc = "gen" /\ threads'[i].owes > threads[i].owes)
         => threads'[i].pc = "rec_write" /\ ~Sends(i)]_vars
\* C23: the mailbox holds one result and the most recent wins: whenever
\* the reader empties the mailbox, the result that was in it is the one it
\* applies, so that no result is dropped without being applied or replaced
\* by a later one
C23_LatestNeverDiscarded ==
  [][(pending_update # NoUpdate /\ pending_update' = NoUpdate)
       => update = pending_update /\ current_mood' = pending_update.mood]_vars
\* the backend failures: no answer, an HTTP error, a body that is not JSON
\* or not a JSON object
BackendFailure(reply) == ~PostOk(reply) \/ ~JsonObject(reply)

\* whatever the backend answers, store and recall return, and on a backend
\* failure they return False and the empty list
NeverRaise ==
  \A reply \in Replies :
    /\ ~Store(reply).raised /\ ~Recall(reply).raised
    /\ BackendFailure(reply)
         => Store(reply).value = FALSE /\ Recall(reply).value = <<>>

\* C24: store and recall never raise; on a backend failure (connection
\* error, timeout, HTTP error, malformed body) store returns False and
\* recall returns the empty list; a pipeline whose recall failed goes on to
\* the reasoning service
C24_MemoryNeverRaises ==
  [][/\ NeverRaise
     /\ \A i \in ThreadIds :
          (threads[i].pc = "collect" /\ threads'[i].recall = "timeout")
            => threads'[i].pc = "react"]_vars

\* a pipeline whose recall timed out stands at the entry of brain.react
C24_Witness ==
  \E i \in ThreadIds :
    /\ threads[i].kind = "bg" /\ threads[i].pc = "react"
    /\ threads[i].recall = "timeout"

\* the last behavioural check pushed an event with the reason
Pushed(reason) ==
  \E n \in 1..Len(behavior_pushed) : behavior_pushed[n] = reason

\* the audio producer could not initialize: its start or its calibration failed
AudioFailed == running /\ audio.pc = "off"

\* C25: a producer that could not initialize (mouse, keyboard, audio) holds
\* and reports zeroed stats on every read of the behavioural check, no
\* behavioural event that needs its stats is pushed, and start_watchers
\* started the monitor loop all the same.
C25_FailedProducerNeutral ==
  /\ running => monitor_thread
  /\ (running /\ ~listeners["mouse"]) =>
       /\ CountStamps(clicks, InputTimes) = 0
       /\ beh.clicks_per_min = 0
       /\ ~Pushed("frustration_pattern")
  /\ (running /\ ~listeners["keyboard"]) =>
       /\ keyboard = [keystrokes |-> NoStamps, backspaces |-> 0, total_keys |-> 0]
       /\ beh.typing_speed = 0 /\ beh.backspace_ratio = 0
       /\ ~Pushed("frustration_pattern") /\ ~Pushed("high_typing_burst")
  /\ AudioFailed =>
       /\ ~audio.calibrated /\ audio.sighs = 0
       /\ beh.sighs = 0
       /\ ~Pushed("sigh_detected")

\* the mouse monitor failed to start; the keyboard monitor and the audio
\* producer run, and a behavioural check has read keys and a sigh but no click
C25_Witness ==
  /\ running /\ monitor_thread
  /\ ~listeners["mouse"] /\ listeners["keyboard"] /\ audio.calibrated
  /\ beh.pc = "emit"
  /\ beh.clicks_per_min = 0 /\ beh.typing_speed > 0 /\ beh.backspace_ratio > 30
  /\ beh.sighs > 0

\* the behavioural check reads the stats / pushes its events in this step
ReadsStats == beh.pc = "idle" /\ beh'.pc = "emit"
EmitsBehavior == beh.pc = "emit" /\ beh'.pc = "idle"

\* C28: a behavioural check pushes frustration_pattern exactly when the
\* backspace ratio it read is above 0.30 and the clicks of the trailing 60
\* seconds it read are above 30; firing zeroes the keyboard counters, so a
\* check that follows with no key press in between reads ratio 0 and does
\* not push frustration_pattern again, whatever the click count.
C28_FrustrationOncePerBurst ==
  [][/\ ReadsStats =>
          /\ beh'.clicks_per_min = CountStamps(Last60(clicks, now), InputTimes)
          /\ beh'.backspace_ratio = BackspaceRatio(keyboard)
          /\ keyboard.total_keys = 0 => beh'.backspace_ratio = 0
     /\ EmitsBehavior =>
          /\ Pushed("frustration_pattern")' <=>
               (beh.backspace_ratio > 30 /\ beh.clicks_per_min > 30)
          /\ Pushed("frustration_pattern")' =>
               keyboard'.backspaces = 0 /\ keyboard'.total_keys = 0
          /\ (Pushed("frustration_pattern") /\ Pushed("frustration_pattern")') =>
               beh.backspace_ratio > 30
     /\ (keyboard'.total_keys > keyboard.total_keys) =>
          (beh' = beh /\ keyboard'.keystrokes # keyboard.keystrokes)]_vars

\* the check after a firing one, with no key pressed since and the clicks
\* still above 30, is about to push: it read ratio 0
C28_Witness ==
  /\ Pushed("frustration_pattern")
  /\ beh.pc = "emit"
  /\ beh.clicks_per_min > 30
  /\ keyboard.total_keys = 0
  /\ beh.backspace_ratio = 0

\* the sigh test on every run length and ratio: a sigh is counted by the
\* elevated chunk that makes the run two chunks long and by no other
SighAtTwo ==
  \A e \in 0..MaxRun : \A ratio \in ChunkRatios \ {-1} :
    /\ SighStep(e, ratio).sigh <=> (20 <= ratio /\ ratio <= 80 /\ e = 1)
    /\ SighStep(e, ratio).elevated_chunks =
         IF 20 <= ratio /\ ratio <= 80 THEN e + 1 ELSE 0

C27_DominantByScore ==
  [][AccConsume =>
       LET events == accumulator.events
           d == summary'.dominant_pattern
       IN IF events = <<>> THEN d = "none"
          ELSE /\ \E i \in 1..Len(events) : events[i] = d
               /\ \A i \in 1..Len(events) :
                    \/ ReasonScore(events, events[i]) < ReasonScore(events, d)
                    \/ /\ ReasonScore(events, events[i]) = ReasonScore(events, d)
                       /\ \E j \in 1..i : events[j] = d]_vars

\* consume() of one high_typing_burst and two unrecognized events (1.0
\* against 0.5 + 0.5), the unrecognized reason buffered first
C27_Witness ==
  /\ ops = "consume"
  /\ summary.event_count = 3
  /\ summary.total_score = 200
  /\ summary.dominant_pattern = "mystery"

\* the dominant trigger reason _quota_fallback reads from the context
DominantOf(ctx) == IF ctx.given THEN ctx.summary.dominant_pattern ELSE ""

C26_HeartbeatEventuallyDispatches ==
  (accumulator.events # <<>>) ~> (accumulator.events = <<>> /\ ops = "dispatch")

\* C31: window_dwell_timeout is pushed for a key only when that key is the
\* last-known key, which has been the context since dwell-start, at least
\* the dwell threshold ago: a poll that observes another key (a title that
\* became empty included) has reset dwell-start before its dwell check.
C31_DwellOnlyForLastKey ==
  [][Emits("window_dwell_timeout") =>
       /\ ContextKey(mon.app, mon.title) = last_context_key
       /\ mon.t - context_started_at >= dwell_seconds_threshold]_vars

\* a timer tick decides to dispatch in this step: it is the only trigger
\* that is neither the startup timer nor a new API key
TickDispatches ==
  nTrig' = nTrig + 1 /\ startup_done' = startup_done /\ nBrains' = nBrains

\* C32: a tick that decides to dispatch while the gate is held has consumed
\* the accumulator all the same: score and buffer are reset, no pipeline is
\* started for the summary, and every summary a pipeline does get covers
\* the batch of its own tick only, never events of a dropped one.
C32_DroppedTriggerConsumes ==
  [][/\ (TickDispatches /\ update_lock) =>
          /\ accumulator'.events = <<>> /\ accumulator'.score = 0
          /\ threads' = threads /\ nThreads' = nThreads
          /\ heldAtArrival' = heldAtArrival \cup {nTrig'}
     /\ \A i \in ThreadIds :
          threads'[i].ctx.given =>
            threads'[i].ctx.summary.event_count \in {Len(b) : b \in Batches}]_vars

\* two ticks decided to dispatch; the second found the gate held: its
\* events are gone from the buffer and the only pipeline is the first one's
C32_Witness ==
  /\ nTrig = 2 /\ ~startup_done /\ nBrains = 1
  /\ heldAtArrival = {2}
  /\ update_lock
  /\ accumulator.events = <<>> /\ accumulator.score = 0
  /\ Cardinality(Started) = 1

\* the events some pop_events call has returned or is about to return
Delivered == returned \o (IF pop.pc = "return" THEN pop.events ELSE <<>>)

\* C33: under every interleaving of the two producers' _push_event with
\* pop_events, the events returned so far followed by the events still
\* queued are the pushed events in the order of their append, each once:
\* none is lost, none is returned twice, none overtakes another.
C33_QueueExactlyOnceInOrder ==
  /\ Delivered \o sensor_events = push_log
  /\ pop.pc = "read" => pop.events = sensor_events
  /\ \A m \in 1..Len(push_log) : \A n \in 1..Len(push_log) :
       /\ (m # n => push_log[m] # push_log[n])
       /\ (m < n /\ push_log[m][1] = push_log[n][1]
             => push_log[m][2] < push_log[n][2])

\* all events of both producers were returned by pop_events calls, the
\* producers' events interleaved in the order of their append
C33_Witness ==
  /\ Len(returned) = 2 * MaxPushes
  /\ returned[1][1] # returned[2][1]
  /\ returned[2][1] # returned[3][1]
  /\ pop.pc = "idle" /\ sensor_events = <<>>

\* C34: one focus transition produces at most one active_window_changed
\* event: as long as the user has switched app once, the callback and the
\* poll loop together have pushed at most one such event, whatever their
\* interleaving.
C34_OneEventPerSwitch == first_switch.switches = 1 => first_switch.events <= 1

\* C35: no sigh is lost or reported twice: the sighs carried by the
\* sigh_detected events plus the counter always add up to the sighs the
\* audio thread has counted, that is, the counter grows only by the audio
\* thread's count, and a check that pushes sigh_detected zeroes a counter
\* that holds exactly the sighs its event carries.
C35_SighsConserved ==
  [][/\ (EmitsBehavior /\ beh.sighs > 0) =>
          (Pushed("sigh_detected")' /\ audio.sighs = beh.sighs
             /\ audio'.sighs = 0)
     /\ (EmitsBehavior /\ beh.sighs = 0) => audio'.sighs = audio.sighs
     /\ audio'.sighs < audio.sighs => EmitsBehavior]_vars

\* a timer tick consumes and dispatches in this step
TickDispatched == now' = now /\ ops' = "dispatch"

\* C36: with MIN_INTERVAL = 0, after every tick of the event timer the
\* score is below the threshold; a tick that dispatches leaves score 0 and
\* an empty buffer, and its one summary covers the events buffered before
\* and the whole popped batch (with the rapid_app_switching event an app
\* switch of the batch may synthesize), the events after the add that
\* first returned true included.
C36_TickLeavesScoreBelowThreshold ==
  [][/\ accumulator'.score < TRIGGER_THRESHOLD
     /\ TickDispatched =>
          /\ accumulator'.score = 0 /\ accumulator'.events = <<>>
          /\ \E batch \in TickBatches : \E rapid \in {0, 1} :
               /\ rapid = 1 =>
                    \E n \in 1..Len(batch) : batch[n] = "active_window_changed"
               /\ summary'.event_count =
                    Len(accumulator.events) + Len(batch) + rapid
               /\ summary'.total_score =
                    Round1(accumulator.score + SumSignificance(batch)
                           + rapid * Significance("rapid_app_switching"))]_vars

\* a tick has dispatched a batch of three events of which the second made
\* add_event return true: the summary has all three
C36_Witness ==
  /\ ops = "dispatch"
  /\ summary.event_count = 3
  /\ summary.total_score = 550
  /\ accumulator.score = 0 /\ accumulator.events = <<>>

\* C37: consume() leaves the sliding window of app switches as it was, so
\* an app switch added while the window still holds two switches of the
\* last 30 s, consumed or not, puts rapid_app_switching into the buffer
\* right behind it.
C37_ConsumeKeepsSwitchWindow ==
  [][/\ (now' = now /\ ops' = "consume") =>
          accumulator'.recent_app_switches = accumulator.recent_app_switches
     /\ (/\ ops' = "add"
         /\ Len(accumulator'.events) > Len(accumulator.events)
         /\ accumulator'.events[Len(accumulator.events) + 1]
              = "active_window_changed"
         /\ Len(DropOld(accumulator.recent_app_switches, now))
              >= RapidSwitchCount - 1) =>
          accumulator'.events = accumulator.events
            \o <<"active_window_changed", "rapid_app_switching">>]_vars

\* a summary of one app switch and the synthesized event: the two switches
\* before it had been consumed into earlier summaries
C37_Witness ==
  /\ ops = "consume"
  /\ summary.event_count = 2 /\ summary.app_switches = 1
  /\ summary.total_score
       = Significance("active_window_changed")
         + Significance("rapid_app_switching")
  /\ accumulator.events = <<>>

\* thread i stores into the deadline of its brain in this step
Stores(i) == threads[i].pc = "rec_write" /\ threads'[i].pc = "recheck"

\* C38: a call that ends in success or in a failure without a rate-limit
\* signal, and a failed first attempt of react, leave every deadline as it
\* was; a deadline changes only in the store of _record_quota_backoff, which
\* a call reaches only when its last attempt raised a rate-limit error.
C38_OnlyRateLimitWritesDeadline ==
  [][/\ \A b \in BrainIds :
          quota_retry_after_ts'[b] # quota_retry_after_ts[b]
            => \E j \in ThreadIds : Stores(j) /\ threads[j].b = b
     /\ \A i \in ThreadIds :
          /\ (/\ threads[i].pc = "gen" /\ threads'[i] # threads[i]
              /\ threads'[i].pc \in {"gen", "publish"})
               => quota_retry_after_ts' = quota_retry_after_ts
          /\ (threads[i].pc # "rec_write" /\ threads'[i].pc = "rec_write")
               => /\ threads[i].pc = "gen"
                  /\ threads[i].kind = "pet" \/ threads[i].attempt = 2
                  /\ \E e \in NetErrors :
                       /\ IsRateLimitText(e.text)
                       /\ threads'[i].val =
                            BackoffDeadline(quota_retry_after_ts[threads[i].b],
                                            now,
                                            ExtractRetryDelaySeconds(e.text))]_vars

\* a call failed without a rate-limit signal when the deadline an earlier
\* rate-limit failure wrote had just passed: the apology, the deadline kept
C38_Witness ==
  \E i \in ThreadIds :
    /\ threads[i].pc = "publish"
    /\ threads[i].result.kind = "apology"
    /\ now > 0
    /\ quota_retry_after_ts[threads[i].b] = now

\* C39: whatever threshold the constructor accepted, the threshold 1
\* included, at most one system_idle_threshold event is pushed during a run
\* of polls that all read an idle time at or above the threshold.
C39_IdleOncePerRun == idle_sensor.run_events <= 1

\* C40: a vector search issued for a user returns at most top_k results,
\* each of them a datapoint that was upserted with that user id, under the
\* memory id it was upserted with (the user prefix stripped), also when
\* another user id is this one followed by an underscore and more.
C40_SearchIsolation ==
  /\ Len(search.results) <= search.top_k
  /\ \A n \in 1..Len(search.results) :
       /\ search.results[n].datapoint.user_id = search.user_id
       /\ search.results[n].id = search.results[n].datapoint.memory_id
====
